---- MODULE Spec2Model ----
(***************************************************************************)
(* The response quality scoring engine (app/services/quality_scoring.py):  *)
(* ResponseQualityScorer.score_response and the five dimension scorers,    *)
(* the aggregation, grading, flagging, manual-review decision and the      *)
(* improvement suggestions.                                                *)
(*                                                                         *)
(* Texts.  A response is a string.  The model builds responses from a      *)
(* fixed vocabulary of parts (phrases and one optional filler run) joined  *)
(* by single spaces in the order of Order.  Every regex and substring test *)
(* of the source is kept as a table: the parts of the vocabulary the       *)
(* source's matcher matches (re.search, "x in text") or how often it       *)
(* matches inside the part (re.findall).  A search over the whole text is  *)
(* the union of the searches over its parts, a count the sum.              *)
(*                                                                         *)
(* Numbers.  The source computes with Python ints and floats.  Relevance   *)
(* is a float (50 + 30 * overlap ratio + ...); the model keeps it in       *)
(* fixed point, One units per point.  The other four dimensions are ints.  *)
(* The breakdown holds all five in fixed point.  The weighted overall      *)
(* score is kept exactly, in units of 1 / (100 * One) = 1 / OverallUnit,   *)
(* and the returned overall_score, round(overall, 1), in tenths.           *)
(***************************************************************************)
EXTENDS Integers, Sequences, FiniteSets, TLC

\* ------------------------------------------------------------------ bounds
\* The largest number of vocabulary phrases in one response.
MaxPhrases == 2
\* The largest number of score_response calls in one behaviour of SpecCalls.
MaxCalls == 3
\* The number of threads that call score_response on one instance in SpecConcurrent.
MaxCallers == 2
\* The largest num passed to generate_reddit_replies and the largest number of lines of
\* a completion.
MaxNum == 3
\* The largest number of broadcasts and error replies in one behaviour of SpecManager.
MaxSends == 2

\* ------------------------------------------------------- the vocabulary
P_thanks == "thanks op, imo this guide from the sub worked for me."
P_steps == "you should try to check the wifi router because it is slow. first, use the settings. then, restart it. otherwise try plan b."
P_edit == "edit:fixed, source:the docs. tldr:it works."
P_example == "for example, here's how: step by step, let me know if you need help."
P_buy == "BUY NOW!!!"
P_affiliate == "visit http://x.com/affiliate for instant free money"
P_dm == "dm me, maybe."
P_google == "just google it, duh."
P_formal == "furthermore, moreover, therefore it is slow."
P_punct == "?! ... ?! -- ?!"
P_unicode == "(non-ASCII text: cafe with e-acute, two CJK characters, three snowmen, naive with i-diaeresis)"
P_blank == "   "
P_abuse == "check out my blog, call me, you idiot, upvote this"
P_spam == "BUY NOW BUY NOW BUY NOW guaranteed guaranteed guaranteed"
P_shrug == "no idea, not sure, figure it out, it's obvious, everyone knows"
P_plug == "thanks, my blog covers this, hope this helps."
F_2 == "and*2"
F_25 == "and*25"
F_60 == "and*60"

\* len(part)
chars ==
    (P_thanks :> 53 @@ P_steps :> 124 @@ P_edit :> 43 @@ P_example :> 68 @@ P_buy :> 10 @@ P_affiliate :> 51 @@ P_dm :> 13 @@ P_google :> 20 @@ P_formal :> 44 @@ P_punct :> 15 @@ P_unicode :> 17 @@ P_blank :> 3 @@ P_abuse :> 50 @@ P_spam :> 56 @@ P_shrug :> 62 @@ P_plug :> 45 @@ F_2 :> 7 @@ F_25 :> 99 @@ F_60 :> 239)

\* parts made of whitespace only
blank ==
    {P_blank}

\* len(part.split())
words ==
    (P_thanks :> 11 @@ P_steps :> 23 @@ P_edit :> 5 @@ P_example :> 14 @@ P_buy :> 2 @@ P_affiliate :> 6 @@ P_dm :> 3 @@ P_google :> 4 @@ P_formal :> 6 @@ P_punct :> 5 @@ P_unicode :> 4 @@ P_abuse :> 10 @@ P_spam :> 9 @@ P_shrug :> 11 @@ P_plug :> 8 @@ F_2 :> 2 @@ F_25 :> 25 @@ F_60 :> 60)

\* part.count('.')
dots ==
    (P_thanks :> 1 @@ P_steps :> 4 @@ P_edit :> 2 @@ P_example :> 1 @@ P_affiliate :> 1 @@ P_dm :> 1 @@ P_google :> 1 @@ P_formal :> 1 @@ P_punct :> 3 @@ P_plug :> 1)

\* sum(len(s.split()) for s in part.split('.'))
sentence_words ==
    (P_thanks :> 11 @@ P_steps :> 23 @@ P_edit :> 5 @@ P_example :> 14 @@ P_buy :> 2 @@ P_affiliate :> 7 @@ P_dm :> 3 @@ P_google :> 4 @@ P_formal :> 6 @@ P_punct :> 4 @@ P_unicode :> 4 @@ P_abuse :> 10 @@ P_spam :> 9 @@ P_shrug :> 11 @@ P_plug :> 8 @@ F_2 :> 2 @@ F_25 :> 25 @@ F_60 :> 60)

\* part.count('!')
exclamations ==
    (P_buy :> 3 @@ P_punct :> 3)

\* set(re.findall(r'\b\w+\b', post_title.lower()))
post_words ==
    ("" :> {} @@ "fix slow wifi router?" :> {"fix", "router", "slow", "wifi"} @@ "wifi router" :> {"router", "wifi"} @@ "?!" :> {})

\* '?' in post_title
question_titles ==
    {"fix slow wifi router?", "?!"}

\* the words of each part (re.findall(r'\b\w+\b', part.lower())) that occur in some title
response_words ==
    (P_thanks :> {} @@ P_steps :> {"router", "slow", "wifi"} @@ P_edit :> {} @@ P_example :> {} @@ P_buy :> {} @@ P_affiliate :> {} @@ P_dm :> {} @@ P_google :> {} @@ P_formal :> {"slow"} @@ P_punct :> {} @@ P_unicode :> {} @@ P_blank :> {} @@ P_abuse :> {} @@ P_spam :> {} @@ P_shrug :> {} @@ P_plug :> {} @@ F_2 :> {} @@ F_25 :> {} @@ F_60 :> {})

\* line 202: word in response.lower()
addressing_words ==
    << {P_steps, P_example, P_abuse},
       {},
       {P_thanks, P_plug},
       {} >>

\* line 207: word in response.lower()
answering_words ==
    << {},
       {P_example, P_buy, P_spam, P_shrug},
       {P_steps},
       {P_steps},
       {P_steps, P_abuse} >>

\* self.positive_indicators: the parts each of its 7 patterns matches
positive_indicators ==
    << {P_thanks, P_plug},
       {P_thanks, P_abuse, P_plug},
       {},
       {P_thanks, P_edit},
       {P_thanks},
       {P_steps},
       {} >>

\* self.negative_indicators: the parts each of its 8 patterns matches
negative_indicators ==
    << {P_buy, P_spam},
       {P_spam},
       {},
       {P_affiliate},
       {P_thanks, P_steps, P_edit, P_example, P_affiliate, P_dm, P_google, P_formal, P_abuse, P_spam, P_shrug, P_plug},
       {P_buy},
       {},
       {P_affiliate} >>

\* self.reddit_tone_positive: the parts each of its 5 patterns matches
reddit_tone_positive ==
    << {P_thanks},
       {P_edit},
       {P_edit},
       {P_thanks},
       {P_thanks} >>

\* self.spam_patterns: the parts each of its 4 patterns matches
spam_patterns ==
    << {P_dm},
       {P_abuse},
       {},
       {} >>

\* self.quality_patterns: the parts each of its 4 patterns matches
quality_patterns ==
    << {P_example},
       {},
       {},
       {} >>

experience_indicators ==
    << {P_thanks, P_steps, P_edit, P_example, P_affiliate, P_google, P_formal, P_abuse, P_shrug, P_plug},
       {P_abuse, P_plug},
       {P_thanks, P_example, P_dm, P_abuse},
       {},
       {} >>

formal_indicators ==
    << {P_formal},
       {P_formal},
       {},
       {P_formal},
       {} >>

\* len(re.findall(pattern, response_lower)) per part
high_value_elements ==
    << [name |-> "specific steps/instructions", count |-> (P_steps :> 2), points |-> 12],
       [name |-> "concrete recommendations", count |-> (P_steps :> 4 @@ P_abuse :> 1), points |-> 10],
       [name |-> "detailed explanations", count |-> (P_steps :> 1 @@ P_example :> 1), points |-> 8],
       [name |-> "multiple alternatives", count |-> <<>>, points |-> 10],
       [name |-> "troubleshooting help", count |-> (P_steps :> 2), points |-> 12] >>

medium_value_elements ==
    << [name |-> "external resources", match |-> {P_affiliate}, points |-> 8],
       [name |-> "personal experience", match |-> {}, points |-> 6],
       [name |-> "specific examples", match |-> {P_example}, points |-> 6],
       [name |-> "time estimates", match |-> {}, points |-> 5],
       [name |-> "cost information", match |-> {P_affiliate}, points |-> 5] >>

helpfulness_quality_patterns ==
    << [name |-> "structured approach", match |-> {P_example}, points |-> 8],
       [name |-> "pros and cons", match |-> {}, points |-> 10],
       [name |-> "warnings/cautions", match |-> {}, points |-> 6],
       [name |-> "follow-up support", match |-> {P_example}, points |-> 5] >>

\* f' {word} ' in f' {response_lower} '
action_words ==
    << {P_steps},
       {P_steps},
       {P_steps, P_abuse},
       {P_affiliate},
       {},
       {},
       {},
       {},
       {},
       {},
       {},
       {P_abuse},
       {},
       {},
       {} >>

unhelpful_patterns ==
    << [name |-> "vague responses", phrases |-> << {}, {P_dm}, {}, {}, {P_shrug}, {} >>, penalty |-> -8],
       [name |-> "dismissive language", phrases |-> << {P_google}, {P_shrug}, {P_shrug}, {P_google}, {P_shrug} >>, penalty |-> -15],
       [name |-> "non-answers", phrases |-> << {}, {P_shrug}, {}, {} >>, penalty |-> -12],
       [name |-> "circular reasoning", phrases |-> << {P_steps}, {}, {} >>, penalty |-> -6] >>

comprehensive_indicators ==
    << {},
       {},
       {},
       {},
       {},
       {} >>

major_violations ==
    << [name |-> "self-promotion", match |-> {P_abuse, P_plug}],
       [name |-> "spam indicators", match |-> {P_buy, P_spam}],
       [name |-> "personal info", match |-> {P_abuse}],
       [name |-> "harassment", match |-> {P_abuse}],
       [name |-> "vote manipulation", match |-> {P_abuse}],
       [name |-> "affiliate links", match |-> {P_affiliate}] >>

\* len(re.findall(pattern, response)) per part, on the text as written
minor_violations ==
    << [name |-> "excessive caps", count |-> <<>>],
       [name |-> "excessive punctuation", count |-> (P_buy :> 1)],
       [name |-> "repetitive text", count |-> (P_spam :> 1 @@ F_25 :> 1 @@ F_60 :> 1)],
       [name |-> "all caps words", count |-> (P_buy :> 2 @@ P_spam :> 6)] >>

compliance_positive_indicators ==
    << [name |-> "respectful language", phrases |-> << {}, {}, {P_thanks, P_plug}, {} >>],
       [name |-> "helpful phrases", phrases |-> << {P_plug}, {}, {P_example}, {} >>],
       [name |-> "community spirit", phrases |-> << {}, {}, {} >>],
       [name |-> "source attribution", phrases |-> << {P_edit}, {}, {}, {} >>] >>

\* line 486
edit_etiquette ==
    {P_edit}

\* line 490
summary_etiquette ==
    {P_edit}

Phrases == {P_thanks, P_steps, P_edit, P_example, P_buy, P_affiliate, P_dm, P_google, P_formal, P_punct, P_unicode, P_blank}
Fillers == {F_2, F_25, F_60}
\* The order in which the parts of a response are joined.
Order ==
    << P_thanks, P_steps, P_edit, P_example, P_buy, P_affiliate, P_dm, P_google, P_formal, P_punct, P_unicode, P_blank, P_abuse, P_spam, P_shrug, P_plug, F_2, F_25, F_60 >>

\* What textstat.flesch_reading_ease (a library, not part of the repository)
\* answers for a text: a reading-ease value, or an exception.
FleschOutcomes ==
    { [raises |-> TRUE, value |-> 0] } \cup { [raises |-> FALSE, value |-> v] : v \in {25, 70, 95} }

Titles == {"", "fix slow wifi router?", "wifi router", "?!"}
Contexts == {"None", "prior research"}

\* A response: its phrases, its filler ("" for none) and what the readability
\* library answers for it.
Texts ==
    { [phrases |-> ps, filler |-> f, flesch |-> fl] :
        ps \in {s \in SUBSET Phrases : Cardinality(s) <= MaxPhrases},
        f \in Fillers \cup {""}, fl \in FleschOutcomes }

Parts(response) ==
    response.phrases \cup (IF response.filler = "" THEN {} ELSE {response.filler})

PartSeq(response) ==
    SelectSeq(Order, LAMBDA p : p \in Parts(response))

RECURSIVE SumSet(_, _)
SumSet(f, S) ==
    IF S = {} THEN 0
    ELSE CHOOSE total \in {f[x] + SumSet(f, S \ {x}) : x \in {CHOOSE y \in S : TRUE}} : TRUE

\* sum of a per-part count over the parts of the response
Total(f, response) ==
    SumSet(f, Parts(response) \cap DOMAIN f)

\* re.search(pattern, response) / "phrase in response"
Search(match, response) ==
    Parts(response) \cap match # {}

\* len(re.findall(pattern, response))
FindAll(count, response) ==
    Total(count, response)

\* whether any pattern matches, instead of how many do
CountMatching_any(patterns, response) ==
    IF \E i \in DOMAIN patterns : Search(patterns[i], response) THEN 1 ELSE 0

\* sum(1 for pattern in patterns if re.search(pattern, response))
CountMatching(patterns, response) ==
    Cardinality({i \in DOMAIN patterns : Search(patterns[i], response)})

\* any(word in response for word in words)
AnyIn(wordlist, response) ==
    \E i \in DOMAIN wordlist : Search(wordlist[i], response)

\* len(response)
StrLen(parts) ==
    IF Len(parts) = 0 THEN 0
    ELSE SumSet(chars, {parts[i] : i \in DOMAIN parts}) + (Len(parts) - 1)

\* response.strip(): leading and trailing whitespace removed
RECURSIVE LStrip(_)
LStrip(parts) ==
    IF parts # <<>> /\ Head(parts) \in blank THEN LStrip(Tail(parts)) ELSE parts

RECURSIVE RStrip(_)
RStrip(parts) ==
    IF parts # <<>> /\ parts[Len(parts)] \in blank
    THEN RStrip(SubSeq(parts, 1, Len(parts) - 1)) ELSE parts

strip(parts) ==
    RStrip(LStrip(parts))

\* len(response.split())
word_count(response) ==
    Total(words, response)

Min(a, b) == IF a < b THEN a ELSE b
Max(a, b) == IF a > b THEN a ELSE b

\* fixed point: units per point of a dimension score
One == 2
\* units per point of the weighted overall score (weights are in hundredths)
OverallUnit == 100 * One

\* class QualityThresholds with COMPLIANCE_MIN = 70
QualityThresholds_lenient ==
    [ EXCELLENT |-> 90, GOOD |-> 80, ACCEPTABLE |-> 70, NEEDS_IMPROVEMENT |-> 60, POOR |-> 50,
      RELEVANCE_MIN |-> 70, READABILITY_MIN |-> 65, AUTHENTICITY_MIN |-> 70,
      HELPFULNESS_MIN |-> 65, COMPLIANCE_MIN |-> 70,
      AUTO_APPROVE |-> 85, MANUAL_REVIEW |-> 60, REJECT |-> 40 ]

\* ------------------------------------------------------- class QualityThresholds
QualityThresholds ==
    [ EXCELLENT |-> 90, GOOD |-> 80, ACCEPTABLE |-> 70, NEEDS_IMPROVEMENT |-> 60, POOR |-> 50,
      RELEVANCE_MIN |-> 70, READABILITY_MIN |-> 65, AUTHENTICITY_MIN |-> 70,
      HELPFULNESS_MIN |-> 65, COMPLIANCE_MIN |-> 80,
      AUTO_APPROVE |-> 85, MANUAL_REVIEW |-> 60, REJECT |-> 40 ]

\* ResponseQualityScorer.__init__: the attributes of a new instance
__init__ ==
    [ thresholds |-> QualityThresholds,
      positive_indicators |-> positive_indicators,
      negative_indicators |-> negative_indicators,
      reddit_tone_positive |-> reddit_tone_positive,
      spam_patterns |-> spam_patterns,
      quality_patterns |-> quality_patterns ]

\* a / b of Python: ZeroDivisionError when b = 0; the callers below only divide
\* where the quotient is a whole number of fixed-point units
TrueDiv(a, b) ==
    IF b = 0 THEN [raised |-> TRUE, value |-> 0] ELSE [raised |-> FALSE, value |-> a \div b]

\* max(0, score): the upper bound of the clamp left out
clamp_lower_only(score, unit) ==
    Max(0, score)

\* min(100, max(0, score)), score in units of 1 / unit
clamp(score, unit) ==
    Min(100 * unit, Max(0, score))

\* line 192: if len(post_words) > 0
overlap_guard(n) ==
    n > 0

\* ------------------------------------------------------- _score_relevance
\* _score_relevance without the early return of lines 183-184
_score_relevance_without_return(self, response, post_title, context) ==
    LET base == 50 * One
        pw == post_words[post_title]
        rw == UNION {response_words[p] : p \in Parts(response)}
        common == pw \cap rw
        n == Cardinality(pw)
        k == Cardinality(common)
        \* overlap_ratio * 30, in fixed point
        ratio30 == TrueDiv(30 * One * k, n)
        s1 == IF overlap_guard(n) THEN base + ratio30.value ELSE base
        f1 == IF overlap_guard(n)
              THEN IF 10 * k > 3 * n THEN <<"Good keyword relevance to original post">>
                   ELSE IF 10 * k < n
                        THEN <<"Low keyword relevance - consider addressing the main topic">>
                        ELSE <<>>
              ELSE <<>>
        addressed == AnyIn(addressing_words, response)
        s2 == IF addressed THEN s1 + 10 * One ELSE s1
        f2 == IF addressed THEN f1 \o <<"Directly addresses the poster">> ELSE f1
        answers == post_title \in question_titles /\ AnyIn(answering_words, response)
        s3 == IF answers THEN s2 + 10 * One ELSE s2
        f3 == IF answers THEN f2 \o <<"Attempts to answer the question">> ELSE f2
    IN  IF overlap_guard(n) /\ ratio30.raised
        THEN [score |-> 0, feedback |-> <<>>, raised |-> TRUE]
        ELSE [score |-> clamp(s3, One), feedback |-> f3, raised |-> FALSE]

\* The score is in fixed point (One units per point).
_score_relevance(self, response, post_title, context) ==
    LET base == 50 * One
        pw == post_words[post_title]
        rw == UNION {response_words[p] : p \in Parts(response)}
        common == pw \cap rw
        n == Cardinality(pw)
        k == Cardinality(common)
        \* overlap_ratio * 30, in fixed point
        ratio30 == TrueDiv(30 * One * k, n)
        s1 == IF overlap_guard(n) THEN base + ratio30.value ELSE base
        f1 == IF overlap_guard(n)
              THEN IF 10 * k > 3 * n THEN <<"Good keyword relevance to original post">>
                   ELSE IF 10 * k < n
                        THEN <<"Low keyword relevance - consider addressing the main topic">>
                        ELSE <<>>
              ELSE <<>>
        addressed == AnyIn(addressing_words, response)
        s2 == IF addressed THEN s1 + 10 * One ELSE s1
        f2 == IF addressed THEN f1 \o <<"Directly addresses the poster">> ELSE f1
        answers == post_title \in question_titles /\ AnyIn(answering_words, response)
        s3 == IF answers THEN s2 + 10 * One ELSE s2
        f3 == IF answers THEN f2 \o <<"Attempts to answer the question">> ELSE f2
    IN  IF post_title = ""
        THEN [score |-> base, feedback |-> <<>>, raised |-> FALSE]
        ELSE IF overlap_guard(n) /\ ratio30.raised
             THEN [score |-> 0, feedback |-> <<>>, raised |-> TRUE]
             ELSE [score |-> clamp(s3, One), feedback |-> f3, raised |-> FALSE]

\* ------------------------------------------------------- _score_readability
\* textstat.flesch_reading_ease(response): outside the repository
flesch_reading_ease(response) ==
    response.flesch

\* lines 218-236 without the try / except: the library's exception leaves the scorer
readability_flesch_unguarded(response) ==
    LET r == flesch_reading_ease(response)
        v == r.value
    IN  IF r.raises
        THEN [delta |-> 0, feedback |-> <<>>, raised |-> TRUE]
        ELSE IF 60 <= v /\ v <= 80
             THEN [delta |-> 30, feedback |-> <<"Excellent readability level">>, raised |-> FALSE]
        ELSE IF (50 <= v /\ v < 60) \/ (80 < v /\ v <= 90)
             THEN [delta |-> 20, feedback |-> <<"Good readability level">>, raised |-> FALSE]
        ELSE IF v < 30
             THEN [delta |-> -20, feedback |-> <<"Text may be too complex - consider simplifying">>, raised |-> FALSE]
        ELSE IF v > 90
             THEN [delta |-> -10, feedback |-> <<"Text may be too simple">>, raised |-> FALSE]
        ELSE [delta |-> 0, feedback |-> <<>>, raised |-> FALSE]

\* lines 218-236: the try block around the readability library and its bare
\* "except: pass"
readability_flesch(response) ==
    LET r == flesch_reading_ease(response)
        v == r.value
    IN  IF r.raises
        THEN [delta |-> 0, feedback |-> <<>>, raised |-> FALSE]
        ELSE IF 60 <= v /\ v <= 80
             THEN [delta |-> 30, feedback |-> <<"Excellent readability level">>, raised |-> FALSE]
        ELSE IF (50 <= v /\ v < 60) \/ (80 < v /\ v <= 90)
             THEN [delta |-> 20, feedback |-> <<"Good readability level">>, raised |-> FALSE]
        ELSE IF v < 30
             THEN [delta |-> -20, feedback |-> <<"Text may be too complex - consider simplifying">>, raised |-> FALSE]
        ELSE IF v > 90
             THEN [delta |-> -10, feedback |-> <<"Text may be too simple">>, raised |-> FALSE]
        ELSE [delta |-> 0, feedback |-> <<>>, raised |-> FALSE]

_score_readability(self, response) ==
    LET fl == readability_flesch(response)
        s1 == 50 + fl.delta
        f1 == fl.feedback
        wc == word_count(response)
        s2 == IF 20 <= wc /\ wc <= 150 THEN s1 + 15
              ELSE IF wc < 10 THEN s1 - 20
              ELSE IF wc > 300 THEN s1 - 10 ELSE s1
        f2 == IF 20 <= wc /\ wc <= 150 THEN f1 \o <<"Good response length">>
              ELSE IF wc < 10 THEN f1 \o <<"Response too short">>
              ELSE IF wc > 300 THEN f1 \o <<"Response may be too long for Reddit">> ELSE f1
        \* sentences = response.split('.'): one more piece than there are dots
        n_sentences == Total(dots, response) + 1
        total_words == Total(sentence_words, response)
        \* 10 <= avg_sentence_length <= 20, avg = total_words / n_sentences
        good_sentences == 10 * n_sentences <= total_words /\ total_words <= 20 * n_sentences
        s3 == IF good_sentences THEN s2 + 5 ELSE s2
        f3 == IF good_sentences THEN f2 \o <<"Good sentence length">> ELSE f2
    IN  IF fl.raised
        THEN [score |-> 0, feedback |-> <<>>, raised |-> TRUE]
        ELSE [score |-> clamp(s3, 1), feedback |-> f3, raised |-> FALSE]

\* ------------------------------------------------------- _score_authenticity
\* _score_authenticity with the deduction for spam-like language limited to 30 points
_score_authenticity_capped_deduction(self, response) ==
    LET positive_matches == CountMatching(self.positive_indicators, response)
        s1 == 50 + Min(positive_matches * 8, 25)
        reddit_matches == CountMatching(self.reddit_tone_positive, response)
        s2 == s1 + Min(reddit_matches * 5, 15)
        f2 == IF reddit_matches > 0 THEN <<"Uses appropriate Reddit tone">> ELSE <<>>
        negative_matches == CountMatching(self.negative_indicators, response)
        s3 == s2 - Min(negative_matches * 15, 30)
        f3 == IF negative_matches > 0
              THEN f2 \o <<"Contains promotional or spam-like language">> ELSE f2
        personal == AnyIn(experience_indicators, response)
        s4 == IF personal THEN s3 + 10 ELSE s3
        f4 == IF personal THEN f3 \o <<"Includes personal perspective">> ELSE f3
        formal_count == CountMatching(formal_indicators, response)
        s5 == IF formal_count > 2 THEN s4 - 10 ELSE s4
        f5 == IF formal_count > 2 THEN f4 \o <<"May sound too formal for Reddit">> ELSE f4
    IN  [score |-> clamp(s5, 1), feedback |-> f5, raised |-> FALSE]

\* lines 259-300
_score_authenticity(self, response) ==
    LET positive_matches == CountMatching(self.positive_indicators, response)
        s1 == 50 + Min(positive_matches * 8, 25)
        reddit_matches == CountMatching(self.reddit_tone_positive, response)
        s2 == s1 + Min(reddit_matches * 5, 15)
        f2 == IF reddit_matches > 0 THEN <<"Uses appropriate Reddit tone">> ELSE <<>>
        negative_matches == CountMatching(self.negative_indicators, response)
        s3 == s2 - negative_matches * 15
        f3 == IF negative_matches > 0
              THEN f2 \o <<"Contains promotional or spam-like language">> ELSE f2
        personal == AnyIn(experience_indicators, response)
        s4 == IF personal THEN s3 + 10 ELSE s3
        f4 == IF personal THEN f3 \o <<"Includes personal perspective">> ELSE f3
        formal_count == CountMatching(formal_indicators, response)
        s5 == IF formal_count > 2 THEN s4 - 10 ELSE s4
        f5 == IF formal_count > 2 THEN f4 \o <<"May sound too formal for Reddit">> ELSE f4
    IN  [score |-> clamp(s5, 1), feedback |-> f5, raised |-> FALSE]

\* Statements that run one after the other are written
\*     CHOOSE result \in {After(next) : next \in {Before}} : TRUE
\* which is After applied to the value of Before: the (score, feedback) pair a
\* statement leaves is computed once and handed to the next.

\* ------------------------------------------------------- _score_helpfulness
\* lines 319-322: one element of high_value_elements
high_value_step(e, response, acc) ==
    LET matches == FindAll(e.count, response)
    IN  IF matches > 0
        THEN [score |-> acc.score + Min(matches * e.points, e.points * 2),
              feedback |-> Append(acc.feedback,
                  "Includes " \o e.name \o " (" \o ToString(matches) \o " instances)")]
        ELSE acc

\* lines 318-322: for element_name, pattern, points in high_value_elements
RECURSIVE high_value_loop(_, _, _)
high_value_loop(i, response, acc) ==
    IF i > Len(high_value_elements) THEN acc
    ELSE CHOOSE result \in
            { high_value_loop(i + 1, response, next) :
                next \in {high_value_step(high_value_elements[i], response, acc)} } : TRUE

\* lines 334-336 and 347-349: one element of medium_value_elements or quality_patterns
flat_bonus_step(e, prefix, response, acc) ==
    IF Search(e.match, response)
    THEN [score |-> acc.score + e.points, feedback |-> Append(acc.feedback, prefix \o e.name)]
    ELSE acc

\* lines 333-336 and 346-349: for name, pattern, points in elements
RECURSIVE flat_bonus_loop(_, _, _, _, _)
flat_bonus_loop(elements, prefix, i, response, acc) ==
    IF i > Len(elements) THEN acc
    ELSE CHOOSE result \in
            { flat_bonus_loop(elements, prefix, i + 1, response, next) :
                next \in {flat_bonus_step(elements[i], prefix, response, acc)} } : TRUE

\* lines 356-360: actionable advice
actionable_advice(response, acc) ==
    LET action_count == CountMatching(action_words, response)
    IN  IF action_count > 0
        THEN [score |-> acc.score + Min(action_count * 3, 15),
              feedback |-> Append(acc.feedback,
                  "Provides actionable advice (" \o ToString(action_count) \o " action words)")]
        ELSE acc

\* lines 363-372: depth and detail
detail_level(response, acc) ==
    LET wc == word_count(response)
    IN  IF 50 <= wc /\ wc <= 200
        THEN [score |-> acc.score + 10, feedback |-> Append(acc.feedback, "Good detail level")]
        ELSE IF 200 < wc /\ wc <= 300
        THEN [score |-> acc.score + 5, feedback |-> Append(acc.feedback, "Comprehensive detail")]
        ELSE IF wc < 20
        THEN [score |-> acc.score - 10, feedback |-> Append(acc.feedback, "Too brief to be helpful")]
        ELSE acc

\* a family of unhelpful phrases that costs its penalty once, however many of its
\* phrases occur
unhelpful_step_once(e, response, acc) ==
    LET matches == CountMatching(e.phrases, response)
    IN  IF matches > 0
        THEN [score |-> acc.score + e.penalty,
              feedback |-> Append(acc.feedback,
                  "Contains " \o e.name \o " (" \o ToString(matches) \o " instances)")]
        ELSE acc

\* lines 383-386: one element of unhelpful_patterns
unhelpful_step(e, response, acc) ==
    LET matches == CountMatching(e.phrases, response)
    IN  IF matches > 0
        THEN [score |-> acc.score + e.penalty * matches,
              feedback |-> Append(acc.feedback,
                  "Contains " \o e.name \o " (" \o ToString(matches) \o " instances)")]
        ELSE acc

\* lines 382-386: for pattern_name, phrases, penalty in unhelpful_patterns
RECURSIVE unhelpful_loop(_, _, _)
unhelpful_loop(i, response, acc) ==
    IF i > Len(unhelpful_patterns) THEN acc
    ELSE CHOOSE result \in
            { unhelpful_loop(i + 1, response, next) :
                next \in {unhelpful_step(unhelpful_patterns[i], response, acc)} } : TRUE

\* lines 389-396: bonus for comprehensive responses
comprehensive_bonus(response, acc) ==
    IF acc.score >= 80 /\ AnyIn(comprehensive_indicators, response)
    THEN [score |-> acc.score + 5,
          feedback |-> Append(acc.feedback,
              "Acknowledges complexity and provides comprehensive help")]
    ELSE acc

\* lines 399-406: the final assessment and the clamped return value
helpfulness_assessment(acc) ==
    [ score |-> clamp(acc.score, 1),
      feedback |->
        IF acc.score >= 85 THEN Append(acc.feedback, "Exceptionally helpful response")
        ELSE IF acc.score >= 70 THEN Append(acc.feedback, "Very helpful response")
        ELSE IF acc.score < 50
        THEN Append(acc.feedback, "Limited helpfulness - consider adding more specific advice")
        ELSE acc.feedback,
      raised |-> FALSE ]

\* The statements of lines 304-406 in order, from the innermost set outwards.
_score_helpfulness(self, response) ==
    CHOOSE result \in
        { helpfulness_assessment(a7) :
            a7 \in { comprehensive_bonus(response, a6) :
            a6 \in { unhelpful_loop(1, response, a5) :
            a5 \in { detail_level(response, a4) :
            a4 \in { actionable_advice(response, a3) :
            a3 \in { flat_bonus_loop(helpfulness_quality_patterns, "Shows ", 1, response, a2) :
            a2 \in { flat_bonus_loop(medium_value_elements, "Includes ", 1, response, a1) :
            a1 \in { high_value_loop(1, response, [score |-> 50, feedback |-> <<>>])
                   } } } } } } } } : TRUE

\* ------------------------------------------------------- _score_compliance
\* a major violation that costs 10 points instead of 25
major_step_light(e, response, acc) ==
    IF Search(e.match, response)
    THEN [score |-> acc.score - 10,
          feedback |-> Append(acc.feedback, "Major violation: " \o e.name \o " detected")]
    ELSE acc

\* lines 426-428: one element of major_violations
major_step(e, response, acc) ==
    IF Search(e.match, response)
    THEN [score |-> acc.score - 25,
          feedback |-> Append(acc.feedback, "Major violation: " \o e.name \o " detected")]
    ELSE acc

\* lines 425-428: for violation_type, pattern in major_violations
RECURSIVE major_loop(_, _, _)
major_loop(i, response, acc) ==
    IF i > Len(major_violations) THEN acc
    ELSE CHOOSE result \in
            { major_loop(i + 1, response, next) :
                next \in {major_step(major_violations[i], response, acc)} } : TRUE

\* a penalty of 5 per match without the limit of 15
minor_penalty_uncapped(matches) ==
    matches * 5

\* line 441: penalty = min(matches * 5, 15)
minor_penalty(matches) ==
    Min(matches * 5, 15)

\* lines 439-443: one element of minor_violations
minor_step(e, response, acc) ==
    LET matches == FindAll(e.count, response)
    IN  IF matches > 0
        THEN [score |-> acc.score - minor_penalty(matches),
              feedback |-> Append(acc.feedback,
                  "Minor violation: " \o e.name \o " (" \o ToString(matches) \o " instances)")]
        ELSE acc

\* lines 438-443: for violation_type, pattern in minor_violations
RECURSIVE minor_loop(_, _, _)
minor_loop(i, response, acc) ==
    IF i > Len(minor_violations) THEN acc
    ELSE CHOOSE result \in
            { minor_loop(i + 1, response, next) :
                next \in {minor_step(minor_violations[i], response, acc)} } : TRUE

\* lines 446-450: spam patterns
spam_check(self, response, acc) ==
    LET spam_matches == CountMatching(self.spam_patterns, response)
    IN  IF spam_matches > 0
        THEN [score |-> acc.score - spam_matches * 10,
              feedback |-> Append(acc.feedback,
                  "Spam-like patterns detected (" \o ToString(spam_matches) \o " instances)")]
        ELSE acc

\* lines 461-463: one element of positive_indicators
positive_step(e, response, acc) ==
    IF AnyIn(e.phrases, response)
    THEN [score |-> acc.score + 3,
          feedback |-> Append(acc.feedback, "Positive indicator: " \o e.name)]
    ELSE acc

\* lines 460-463: for indicator_type, phrases in positive_indicators
RECURSIVE positive_loop(_, _, _)
positive_loop(i, response, acc) ==
    IF i > Len(compliance_positive_indicators) THEN acc
    ELSE CHOOSE result \in
            { positive_loop(i + 1, response, next) :
                next \in {positive_step(compliance_positive_indicators[i], response, acc)} } : TRUE

\* lines 466-475: length and structure
length_check(response, acc) ==
    LET wc == word_count(response)
    IN  IF 20 <= wc /\ wc <= 300
        THEN [score |-> acc.score + 5, feedback |-> Append(acc.feedback, "Appropriate response length")]
        ELSE IF wc > 500
        THEN [score |-> acc.score - 5,
              feedback |-> Append(acc.feedback, "Response may be too long for Reddit")]
        ELSE IF wc < 10
        THEN [score |-> acc.score - 10,
              feedback |-> Append(acc.feedback, "Response too short to be helpful")]
        ELSE acc

\* lines 478-483: balanced tone
tone_check(response, acc) ==
    LET exclamation_count == Total(exclamations, response)
    IN  IF exclamation_count <= 2 THEN [acc EXCEPT !.score = @ + 3]
        ELSE IF exclamation_count > 5
        THEN [score |-> acc.score - 5, feedback |-> Append(acc.feedback, "Overly excited tone")]
        ELSE acc

\* lines 486-492: Reddit etiquette
etiquette_check(response, acc) ==
    LET edited == Search(edit_etiquette, response)
        summed == Search(summary_etiquette, response)
    IN  [ score |-> acc.score + (IF edited THEN 5 ELSE 0) + (IF summed THEN 3 ELSE 0),
          feedback |-> acc.feedback
                       \o (IF edited THEN <<"Follows Reddit edit etiquette">> ELSE <<>>)
                       \o (IF summed THEN <<"Includes helpful summary">> ELSE <<>>) ]

\* the final assessment put in front of the other compliance messages
compliance_assessment_first(acc) ==
    [ score |-> clamp(acc.score, 1),
      feedback |->
        IF acc.score >= 90
        THEN <<"Excellent compliance with Reddit guidelines">> \o acc.feedback
        ELSE IF acc.score >= 80
        THEN <<"Good compliance with minor areas for improvement">> \o acc.feedback
        ELSE IF acc.score < 60
        THEN <<"Significant compliance issues require attention">> \o acc.feedback
        ELSE acc.feedback,
      raised |-> FALSE ]

\* lines 495-502: the final assessment and the clamped return value
compliance_assessment(acc) ==
    [ score |-> clamp(acc.score, 1),
      feedback |->
        IF acc.score >= 90
        THEN Append(acc.feedback, "Excellent compliance with Reddit guidelines")
        ELSE IF acc.score >= 80
        THEN Append(acc.feedback, "Good compliance with minor areas for improvement")
        ELSE IF acc.score < 60
        THEN Append(acc.feedback, "Significant compliance issues require attention")
        ELSE acc.feedback,
      raised |-> FALSE ]

\* The statements of lines 410-502 in order, from the innermost set outwards.
_score_compliance(self, response) ==
    CHOOSE result \in
        { compliance_assessment(a7) :
            a7 \in { etiquette_check(response, a6) :
            a6 \in { tone_check(response, a5) :
            a5 \in { length_check(response, a4) :
            a4 \in { positive_loop(1, response, a3) :
            a3 \in { spam_check(self, response, a2) :
            a2 \in { minor_loop(1, response, a1) :
            a1 \in { major_loop(1, response, [score |-> 85, feedback |-> <<>>])
                   } } } } } } } } : TRUE

\* ------------------------------------------------------- aggregation
\* the keys of the scores dict, in insertion order
Dimensions == <<"relevance", "readability", "authenticity", "helpfulness", "compliance">>

\* weights that favour relevance: 0.30 instead of 0.25, the sum is 1.05
weights_heavy ==
    [relevance |-> 30, readability |-> 15, authenticity |-> 20, helpfulness |-> 25, compliance |-> 15]

\* lines 137-143, in hundredths
weights ==
    [relevance |-> 25, readability |-> 15, authenticity |-> 20, helpfulness |-> 25, compliance |-> 15]

\* line 145: sum(scores[key] * weights[key] for key in scores), in units of
\* 1 / OverallUnit (scores are in units of 1 / One, weights in hundredths)
weighted_sum(scores) ==
    SumSet([d \in DOMAIN scores |-> scores[d] * weights[d]], DOMAIN scores)

\* round(overall_score, 1), in tenths.  Python rounds the binary float to the nearest
\* tenth; where the exact sum lies halfway between two tenths the float lies a hair
\* above or below it, and ties_up says on which side.
round1(overall_score, ties_up) ==
    LET step == OverallUnit \div 10
        q == overall_score \div step
        r == overall_score % step
    IN  IF 2 * r > step \/ (2 * r = step /\ ties_up) THEN q + 1 ELSE q

\* the value of a returned overall_score (tenths) in units of 1 / OverallUnit
FromTenths(t) ==
    t * (OverallUnit \div 10)

IsTie(overall_score) ==
    2 * (overall_score % (OverallUnit \div 10)) = OverallUnit \div 10

\* ------------------------------------------------------- _get_grade
\* _get_grade with the letters of the 60 and 65 cutoffs exchanged
_get_grade_swapped(score) ==
    IF score >= 95 * OverallUnit THEN "A+"
    ELSE IF score >= 90 * OverallUnit THEN "A"
    ELSE IF score >= 85 * OverallUnit THEN "A-"
    ELSE IF score >= 80 * OverallUnit THEN "B+"
    ELSE IF score >= 75 * OverallUnit THEN "B"
    ELSE IF score >= 70 * OverallUnit THEN "B-"
    ELSE IF score >= 65 * OverallUnit THEN "C"
    ELSE IF score >= 60 * OverallUnit THEN "C+"
    ELSE IF score >= 55 * OverallUnit THEN "C-"
    ELSE IF score >= 50 * OverallUnit THEN "D"
    ELSE "F"

\* score in units of 1 / OverallUnit
_get_grade(score) ==
    IF score >= 95 * OverallUnit THEN "A+"
    ELSE IF score >= 90 * OverallUnit THEN "A"
    ELSE IF score >= 85 * OverallUnit THEN "A-"
    ELSE IF score >= 80 * OverallUnit THEN "B+"
    ELSE IF score >= 75 * OverallUnit THEN "B"
    ELSE IF score >= 70 * OverallUnit THEN "B-"
    ELSE IF score >= 65 * OverallUnit THEN "C+"
    ELSE IF score >= 60 * OverallUnit THEN "C"
    ELSE IF score >= 55 * OverallUnit THEN "C-"
    ELSE IF score >= 50 * OverallUnit THEN "D"
    ELSE "F"

\* ------------------------------------------------------- _generate_quality_flags
\* lines 534-539: the if / elif / elif chain over the overall score
overall_flags(self, overall_score) ==
    IF overall_score >= self.thresholds.EXCELLENT * OverallUnit THEN <<"EXCELLENT_QUALITY">>
    ELSE IF overall_score >= self.thresholds.AUTO_APPROVE * OverallUnit THEN <<"AUTO_APPROVE_CANDIDATE">>
    ELSE IF overall_score <= self.thresholds.REJECT * OverallUnit THEN <<"REJECT_CANDIDATE">>
    ELSE <<>>

\* lines 542-555: one flag per dimension below its minimum
dimension_flags(self, scores) ==
    (IF scores.relevance < self.thresholds.RELEVANCE_MIN * One THEN <<"LOW_RELEVANCE">> ELSE <<>>)
    \o (IF scores.readability < self.thresholds.READABILITY_MIN * One THEN <<"POOR_READABILITY">> ELSE <<>>)
    \o (IF scores.authenticity < self.thresholds.AUTHENTICITY_MIN * One THEN <<"INAUTHENTIC_TONE">> ELSE <<>>)
    \o (IF scores.helpfulness < self.thresholds.HELPFULNESS_MIN * One THEN <<"LOW_HELPFULNESS">> ELSE <<>>)
    \o (IF scores.compliance < self.thresholds.COMPLIANCE_MIN * One THEN <<"COMPLIANCE_RISK">> ELSE <<>>)

\* lines 558-562 with "< 40" for "<= 40"
special_flags_strict(scores) ==
    (IF \A d \in DOMAIN scores : scores[d] >= 85 * One THEN <<"ALL_DIMENSIONS_EXCELLENT">> ELSE <<>>)
    \o (IF \E d \in DOMAIN scores : scores[d] < 40 * One THEN <<"CRITICAL_DIMENSION_FAILURE">> ELSE <<>>)

\* lines 558-562
special_flags(scores) ==
    (IF \A d \in DOMAIN scores : scores[d] >= 85 * One THEN <<"ALL_DIMENSIONS_EXCELLENT">> ELSE <<>>)
    \o (IF \E d \in DOMAIN scores : scores[d] <= 40 * One THEN <<"CRITICAL_DIMENSION_FAILURE">> ELSE <<>>)

_generate_quality_flags(self, scores, overall_score) ==
    overall_flags(self, overall_score) \o dimension_flags(self, scores) \o special_flags(scores)

Has(list, x) ==
    \E i \in DOMAIN list : list[i] = x

\* ------------------------------------------------------- _requires_manual_review
critical_flags == <<"COMPLIANCE_RISK", "CRITICAL_DIMENSION_FAILURE", "REJECT_CANDIDATE">>

\* line 588: sum(1 for score in scores.values() if score < 60)
low_scores(scores) ==
    Cardinality({d \in DOMAIN scores : scores[d] < 60 * One})

\* _requires_manual_review without lines 587-590 (the count of scores below 60)
_requires_manual_review_no_count(self, scores, overall_score, quality_flags) ==
    IF overall_score <= self.thresholds.REJECT * OverallUnit THEN TRUE
    ELSE IF \E i \in DOMAIN critical_flags : Has(quality_flags, critical_flags[i]) THEN TRUE
    ELSE IF scores.compliance < self.thresholds.COMPLIANCE_MIN * One THEN TRUE
    ELSE IF self.thresholds.MANUAL_REVIEW * OverallUnit <= overall_score
            /\ overall_score < self.thresholds.AUTO_APPROVE * OverallUnit THEN TRUE
    ELSE FALSE

\* lines 566-596
_requires_manual_review(self, scores, overall_score, quality_flags) ==
    IF overall_score <= self.thresholds.REJECT * OverallUnit THEN TRUE
    ELSE IF \E i \in DOMAIN critical_flags : Has(quality_flags, critical_flags[i]) THEN TRUE
    ELSE IF scores.compliance < self.thresholds.COMPLIANCE_MIN * One THEN TRUE
    ELSE IF low_scores(scores) >= 2 THEN TRUE
    ELSE IF self.thresholds.MANUAL_REVIEW * OverallUnit <= overall_score
            /\ overall_score < self.thresholds.AUTO_APPROVE * OverallUnit THEN TRUE
    ELSE FALSE

\* ------------------------------------------------------- _generate_improvement_suggestions
relevance_suggestions ==
    << "Include more keywords from the original post title",
       "Directly address the poster's question or concern",
       "Reference specific details mentioned in the original post" >>
readability_suggestions ==
    << "Use shorter, simpler sentences (aim for 15-20 words per sentence)",
       "Break up long paragraphs into smaller chunks",
       "Use common words instead of complex vocabulary",
       "Add bullet points or numbered lists for clarity" >>
authenticity_suggestions ==
    << "Add personal experience or anecdotes",
       "Use more conversational language and contractions",
       "Include Reddit-appropriate abbreviations (IMO, TBH, etc.)",
       "Avoid overly formal or corporate language" >>
helpfulness_suggestions ==
    << "Provide specific, actionable steps or recommendations",
       "Include relevant links or resources",
       "Offer alternative solutions or approaches",
       "Explain the reasoning behind your suggestions" >>
compliance_suggestions ==
    << "Remove any promotional or sales language",
       "Avoid excessive capitalization or punctuation",
       "Ensure content follows Reddit community guidelines",
       "Remove any personal contact information or links" >>

\* lines 660-665: drop later duplicates, keep the first occurrence
RECURSIVE unique(_, _)
unique(suggestions, acc) ==
    IF suggestions = <<>> THEN acc
    ELSE CHOOSE result \in
            { unique(rest, next) :
                rest \in {Tail(suggestions)},
                next \in {IF Has(acc, Head(suggestions)) THEN acc
                          ELSE Append(acc, Head(suggestions))} } : TRUE

\* _generate_improvement_suggestions without the limit of line 667
_generate_improvement_suggestions_untruncated(self, scores, quality_flags) ==
    LET t == self.thresholds
        suggestions ==
            (IF scores.relevance < t.RELEVANCE_MIN * One THEN relevance_suggestions ELSE <<>>)
            \o (IF scores.readability < t.READABILITY_MIN * One THEN readability_suggestions ELSE <<>>)
            \o (IF scores.authenticity < t.AUTHENTICITY_MIN * One THEN authenticity_suggestions ELSE <<>>)
            \o (IF scores.helpfulness < t.HELPFULNESS_MIN * One THEN helpfulness_suggestions ELSE <<>>)
            \o (IF scores.compliance < t.COMPLIANCE_MIN * One THEN compliance_suggestions ELSE <<>>)
            \o (IF Has(quality_flags, "LOW_RELEVANCE")
                THEN <<"Focus more directly on the original poster's specific question">> ELSE <<>>)
            \o (IF Has(quality_flags, "POOR_READABILITY")
                THEN <<"Simplify language and sentence structure for better comprehension">> ELSE <<>>)
            \o (IF Has(quality_flags, "INAUTHENTIC_TONE")
                THEN <<"Adopt a more natural, conversational Reddit tone">> ELSE <<>>)
            \o (IF Has(quality_flags, "COMPLIANCE_RISK")
                THEN <<"Review content for potential policy violations">> ELSE <<>>)
    IN  unique(suggestions, <<>>)

\* lines 598-667
_generate_improvement_suggestions(self, scores, quality_flags) ==
    LET t == self.thresholds
        suggestions ==
            (IF scores.relevance < t.RELEVANCE_MIN * One THEN relevance_suggestions ELSE <<>>)
            \o (IF scores.readability < t.READABILITY_MIN * One THEN readability_suggestions ELSE <<>>)
            \o (IF scores.authenticity < t.AUTHENTICITY_MIN * One THEN authenticity_suggestions ELSE <<>>)
            \o (IF scores.helpfulness < t.HELPFULNESS_MIN * One THEN helpfulness_suggestions ELSE <<>>)
            \o (IF scores.compliance < t.COMPLIANCE_MIN * One THEN compliance_suggestions ELSE <<>>)
            \o (IF Has(quality_flags, "LOW_RELEVANCE")
                THEN <<"Focus more directly on the original poster's specific question">> ELSE <<>>)
            \o (IF Has(quality_flags, "POOR_READABILITY")
                THEN <<"Simplify language and sentence structure for better comprehension">> ELSE <<>>)
            \o (IF Has(quality_flags, "INAUTHENTIC_TONE")
                THEN <<"Adopt a more natural, conversational Reddit tone">> ELSE <<>>)
            \o (IF Has(quality_flags, "COMPLIANCE_RISK")
                THEN <<"Review content for potential policy violations">> ELSE <<>>)
    IN  CHOOSE result \in
            { SubSeq(unique_suggestions, 1, Min(8, Len(unique_suggestions))) :
                unique_suggestions \in {unique(suggestions, <<>>)} } : TRUE

\* ------------------------------------------------------- get_improvement_suggestions
\* get_improvement_suggestions passing no flags on
get_improvement_suggestions_without_flags(self, scores) ==
    _generate_improvement_suggestions(self, scores, <<>>)

\* line 716: sum(scores.values()) / len(scores), in units of 1 / OverallUnit
mean(scores) ==
    (SumSet(scores, DOMAIN scores) * (OverallUnit \div One)) \div Cardinality(DOMAIN scores)

\* lines 714-717
get_improvement_suggestions(self, scores) ==
    CHOOSE result \in
        { _generate_improvement_suggestions(self, scores, quality_flags) :
            quality_flags \in {_generate_quality_flags(self, scores, mean(scores))} } : TRUE


\* ------------------------------------------------------- ConnectionManager
\* websocket_service.py.  A manager is a record of its attributes: active_connections
\* and connection_info are functions whose domain is the set of keys of the dict,
\* health_monitor.connection_health maps a websocket to its 'is_healthy', and of
\* connection_stats the four counters are kept.
\* lines 107-124 and 17-21: the manager after construction
ConnectionManager ==
    [ active_connections |-> <<>>,
      connection_info |-> <<>>,
      health_monitor |-> [connection_health |-> <<>>],
      connection_stats |-> [total_connections_ever |-> 0, current_connections |-> 0,
                            disconnections |-> 0, failed_connections |-> 0] ]

\* del d[key] / d.pop(key, None)
Without(d, key) ==
    [k \in DOMAIN d \ {key} |-> d[k]]

\* lines 156-181: connect after websocket.accept() has returned, up to the first send
connect_accepted(self, websocket, client_id, user_id) ==
    [ active_connections |->
          (client_id :> ((IF client_id \in DOMAIN self.active_connections
                          THEN self.active_connections[client_id] ELSE {}) \cup {websocket}))
          @@ self.active_connections,
      connection_info |->
          (websocket :> [client_id |-> client_id, user_id |-> user_id,
                         messages_sent |-> 0, messages_received |-> 0])
          @@ self.connection_info,
      health_monitor |->
          [connection_health |-> (websocket :> TRUE) @@ self.health_monitor.connection_health],
      connection_stats |->
          [self.connection_stats EXCEPT !.total_connections_ever = @ + 1,
                                        !.current_connections = @ + 1] ]

\* lines 232-235: connect when websocket.accept() raises
connect_failed(self) ==
    [self EXCEPT !.connection_stats.failed_connections = @ + 1]

\* disconnect without the test of line 239
disconnect_unguarded(self, websocket) ==
    [self EXCEPT !.connection_stats.current_connections = @ - 1,
                 !.connection_stats.disconnections = @ + 1,
                 !.connection_info = Without(@, websocket),
                 !.health_monitor.connection_health = Without(@, websocket)]

\* lines 237-263
disconnect(self, websocket) ==
    IF websocket \in DOMAIN self.connection_info
    THEN CHOOSE after \in
            { [ active_connections |->
                    IF client_id \in DOMAIN self.active_connections
                    THEN (IF self.active_connections[client_id] \ {websocket} = {}
                          THEN Without(self.active_connections, client_id)
                          ELSE [self.active_connections EXCEPT ![client_id] = @ \ {websocket}])
                    ELSE self.active_connections,
                connection_info |-> Without(self.connection_info, websocket),
                health_monitor |->
                    [connection_health |-> Without(self.health_monitor.connection_health, websocket)],
                connection_stats |->
                    [self.connection_stats EXCEPT !.current_connections = @ - 1,
                                                  !.disconnections = @ + 1] ] :
                client_id \in {self.connection_info[websocket].client_id} } : TRUE
    ELSE self

\* lines 273-276 and 306-309: the counters of a connection after a send
sent(self, websocket) ==
    IF websocket \in DOMAIN self.connection_info
    THEN [self EXCEPT !.connection_info[websocket].messages_sent = @ + 1]
    ELSE self

\* lines 265-280, from the return of websocket.send_text on; delivered says whether
\* send_text returned or raised
send_personal_message(self, websocket, delivered) ==
    IF delivered THEN sent(self, websocket) ELSE disconnect(self, websocket)

\* lines 82-86
is_healthy(self, websocket) ==
    IF websocket \notin DOMAIN self.health_monitor.connection_health THEN FALSE
    ELSE self.health_monitor.connection_health[websocket]

\* lines 316-317: disconnect every connection of the set
RECURSIVE disconnect_each(_, _)
disconnect_each(self, disconnected) ==
    IF disconnected = {} THEN self
    ELSE CHOOSE after \in
            { disconnect_each(disconnect(self, connection), disconnected \ {connection}) :
                connection \in {CHOOSE x \in disconnected : TRUE} } : TRUE

\* ------------------------------------------------------- RateLimitManager
\* reddit_service.py, lines 26-32: the rate limiter after construction (times in seconds)
RateLimitManager ==
    [ last_request_time |-> 0, request_count |-> 0, rate_limit_reset |-> 0,
      backoff_delay |-> 1, max_backoff |-> 300, requests_per_minute |-> 60 ]

\* lines 34-59: wait_if_needed called at current_time (whole seconds).  slept is the
\* time spent in time.sleep; the second time.time() of lines 51 and 58 is the clock
\* after the sleeps before it.
wait_if_needed(self, current_time) ==
    LET reset == current_time - self.rate_limit_reset > 60
        count1 == IF reset THEN 0 ELSE self.request_count
        reset1 == IF reset THEN current_time ELSE self.rate_limit_reset
        backoff1 == IF reset THEN 1 ELSE self.backoff_delay
        wait_time == 60 - (current_time - reset1)
        waits == count1 >= self.requests_per_minute - 5 /\ wait_time > 0
        slept1 == IF waits THEN wait_time ELSE 0
        time_since_last == current_time - self.last_request_time
        slept2 == IF time_since_last < 1 THEN 1 - time_since_last ELSE 0
    IN  [ self |-> [self EXCEPT !.request_count = (IF waits THEN 0 ELSE count1) + 1,
                                !.rate_limit_reset = IF waits THEN current_time + slept1 ELSE reset1,
                                !.backoff_delay = backoff1,
                                !.last_request_time = current_time + slept1 + slept2],
          slept |-> slept1 + slept2 ]

\* lines 61-70; retry_after is <<>> for None and <<n>> for the int n
handle_rate_limit_error(self, retry_after) ==
    IF retry_after # <<>> /\ retry_after[1] # 0
    THEN [self |-> self, slept |-> retry_after[1]]
    ELSE [self |-> [self EXCEPT !.backoff_delay = @ * 2],
          slept |-> Min(self.backoff_delay, self.max_backoff)]

\* ------------------------------------------------------- with_reddit_error_handling
\* What one invocation of the wrapped function does: it returns, or it raises
\*   praw's RedditAPIException with its items (their error_type),
\*   a ResponseException with the status code and the Retry-After header of the
\*   response ("None": no such header), or
\*   another exception.
ErrorItems ==
    { <<>>, <<"RATELIMIT">>, <<"SERVER_ERROR">>, <<"TIMEOUT">>, <<"BAD_REQUEST">>,
      <<"RATELIMIT", "SERVER_ERROR">>, <<"BAD_REQUEST", "RATELIMIT">> }

RetryAfterHeaders == {"None", "5", "0", "Wed, 21 Oct 2026 07:28:00 GMT"}

Outcomes ==
    {[kind |-> "returns", items |-> <<>>, status_code |-> 0, retry_after |-> "None"]}
    \cup {[kind |-> "RedditAPIException", items |-> it, status_code |-> 0, retry_after |-> "None"] :
            it \in ErrorItems}
    \cup {[kind |-> "ResponseException", items |-> <<>>, status_code |-> 429, retry_after |-> h] :
            h \in RetryAfterHeaders}
    \cup {[kind |-> "ResponseException", items |-> <<>>, status_code |-> c, retry_after |-> "None"] :
            c \in {404, 500}}
    \cup {[kind |-> "Exception", items |-> <<>>, status_code |-> 0, retry_after |-> "None"]}

\* int(retry_after) of line 108 for the headers above: the number, or ValueError
int(retry_after) ==
    CASE retry_after = "5" -> [raises |-> FALSE, value |-> 5]
      [] retry_after = "0" -> [raises |-> FALSE, value |-> 0]
      [] OTHER -> [raises |-> TRUE, value |-> 0]

\* 2 ** retry_count
RECURSIVE Pow2(_)
Pow2(n) ==
    IF n = 0 THEN 1 ELSE 2 * Pow2(n - 1)

max_retries == 3

\* lines 93-100: the loop over e.items; acc is the rate limiter and the time slept
RECURSIVE items_loop(_, _, _)
items_loop(items, retry_count, acc) ==
    IF items = <<>> THEN acc
    ELSE CHOOSE result \in
            { items_loop(Tail(items), retry_count, next) :
                next \in
                    { IF Head(items) = "RATELIMIT"
                      THEN CHOOSE after \in
                              { [self |-> h.self, slept |-> acc.slept + h.slept] :
                                  h \in {handle_rate_limit_error(acc.self, <<>>)} } : TRUE
                      ELSE IF Head(items) \in {"SERVER_ERROR", "TIMEOUT"} /\ retry_count < max_retries
                      THEN [acc EXCEPT !.slept = @ + Pow2(retry_count)]
                      ELSE acc } } : TRUE

\* lines 88-124: what the handlers do with the exception of one invocation;
\* retry_count is the count before the invocation, resolves says whether the
\* attribute praw.exceptions.ResponseException of line 102 exists in the installed
\* praw.  Answers the rate limiter, the time slept, the count, and how the
\* iteration ends: "continue" (back to line 82) or the exception that leaves the
\* wrapper.
handlers(self, outcome, retry_count, resolves) ==
    IF outcome.kind = "RedditAPIException"
    THEN CHOOSE result \in
            { [self |-> l.self, slept |-> l.slept, retry_count |-> retry_count + 1,
               ends |-> IF retry_count + 1 >= max_retries THEN "RedditAPIError" ELSE "continue"] :
                l \in {items_loop(outcome.items, retry_count + 1, [self |-> self, slept |-> 0])} } : TRUE
    ELSE IF ~resolves
    THEN [self |-> self, slept |-> 0, retry_count |-> retry_count, ends |-> "AttributeError"]
    ELSE IF outcome.kind = "ResponseException"
    THEN IF outcome.status_code = 429
         THEN IF outcome.retry_after # "None" /\ int(outcome.retry_after).raises
              THEN [self |-> self, slept |-> 0, retry_count |-> retry_count + 1, ends |-> "ValueError"]
              ELSE CHOOSE result \in
                      { [self |-> h.self, slept |-> h.slept, retry_count |-> retry_count + 1,
                         ends |-> "continue"] :
                          h \in {handle_rate_limit_error(
                                     self, IF outcome.retry_after # "None"
                                           THEN <<int(outcome.retry_after).value>> ELSE <<>>)} } : TRUE
         ELSE IF outcome.status_code >= 500 /\ retry_count + 1 < max_retries
         THEN [self |-> self, slept |-> Pow2(retry_count + 1), retry_count |-> retry_count + 1,
               ends |-> "continue"]
         ELSE [self |-> self, slept |-> 0, retry_count |-> retry_count + 1,
               ends |-> IF retry_count + 1 >= max_retries THEN "RedditAPIError" ELSE "continue"]
    ELSE [self |-> self, slept |-> 0, retry_count |-> retry_count, ends |-> "RedditAPIError"]

\* ------------------------------------------------------- score_response
\* line 90 without the strip(): not response or len(response) < 10
too_short_unstripped(response) ==
    LET parts == PartSeq(response)
    IN  StrLen(parts) = 0 \/ StrLen(parts) < 10

\* line 90: not response or len(response.strip()) < 10
too_short(response) ==
    LET parts == PartSeq(response)
    IN  StrLen(parts) = 0 \/ StrLen(strip(parts)) < 10

\* lines 91-105: the result for an empty or too short response
short_result ==
    [ overall_score |-> 0,
      breakdown |-> [relevance |-> 0, readability |-> 0, authenticity |-> 0,
                     helpfulness |-> 0, compliance |-> 0],
      feedback |-> <<"Response too short or empty">>,
      grade |-> "F",
      quality_flags |-> <<"TOO_SHORT">>,
      manual_review_required |-> TRUE,
      improvement_suggestions |-> <<"Provide a more substantial response with at least 20 words">> ]

\* lines 136-176: from the five scores to the returned dict.  locals keeps the
\* unrounded overall_score the flags, the review decision and the grade are computed from.
aggregate(self, scores, feedback, now, ties_up) ==
    LET overall_score == weighted_sum(scores)
        quality_flags == _generate_quality_flags(self, scores, overall_score)
        manual_review_required == _requires_manual_review(self, scores, overall_score, quality_flags)
        improvement_suggestions == _generate_improvement_suggestions(self, scores, quality_flags)
        grade == _get_grade(overall_score)
    IN  [ value |->
            [ overall_score |-> round1(overall_score, ties_up),
              breakdown |-> scores,
              feedback |-> feedback,
              grade |-> grade,
              quality_flags |-> quality_flags,
              manual_review_required |-> manual_review_required,
              improvement_suggestions |-> improvement_suggestions,
              scoring_metadata |->
                [ weights |-> weights,
                  thresholds_used |->
                    [ auto_approve |-> self.thresholds.AUTO_APPROVE,
                      manual_review |-> self.thresholds.MANUAL_REVIEW,
                      reject |-> self.thresholds.REJECT ],
                  scored_at |-> now ] ],
          locals |-> [overall_score |-> overall_score] ]

\* An instance that adapts its auto-approve threshold at every call.
instance_after_adapting(self, response) ==
    [self EXCEPT !.thresholds.AUTO_APPROVE = @ - 5]

\* An instance that raises its compliance minimum whenever it has scored a response.
instance_after_tightening(self, response) ==
    [self EXCEPT !.thresholds.COMPLIANCE_MIN = 100]

\* The attributes of the instance when score_response returns: no statement of
\* lines 85-176, nor of the scorers it calls, assigns to self or changes its lists.
instance_after(self, response) ==
    self

raise(invoked, self) ==
    [raised |-> TRUE, value |-> [exception |-> "Exception"], locals |-> [overall_score |-> 0],
     invoked |-> invoked, self |-> self]

\* lines 112-132: the five scorers, each called once
run_scorers(self, response, context, post_title) ==
    [ rel |-> _score_relevance(self, response, post_title, context),
      rea |-> _score_readability(self, response),
      aut |-> _score_authenticity(self, response),
      hel |-> _score_helpfulness(self, response),
      com |-> _score_compliance(self, response) ]

\* lines 107-176 given what the scorers returned (r): an exception of a scorer leaves
\* score_response at its call, otherwise the scores are aggregated and returned
collect(self, response, r, now, ties_up) ==
    LET scores == [relevance |-> r.rel.score, readability |-> r.rea.score * One,
                   authenticity |-> r.aut.score * One, helpfulness |-> r.hel.score * One,
                   compliance |-> r.com.score * One]
        feedback == r.rel.feedback \o r.rea.feedback \o r.aut.feedback \o r.hel.feedback
                    \o r.com.feedback
        agg == aggregate(self, scores, feedback, now, ties_up)
        after == instance_after(self, response)
    IN  IF r.rel.raised THEN raise(<<"_score_relevance">>, after)
        ELSE IF r.rea.raised THEN raise(<<"_score_relevance", "_score_readability">>, after)
        ELSE IF r.aut.raised
             THEN raise(<<"_score_relevance", "_score_readability", "_score_authenticity">>, after)
        ELSE IF r.hel.raised
             THEN raise(<<"_score_relevance", "_score_readability", "_score_authenticity",
                          "_score_helpfulness">>, after)
        ELSE IF r.com.raised
             THEN raise(<<"_score_relevance", "_score_readability", "_score_authenticity",
                          "_score_helpfulness", "_score_compliance">>, after)
        ELSE [raised |-> FALSE, value |-> agg.value, locals |-> agg.locals,
              invoked |-> <<"_score_relevance", "_score_readability", "_score_authenticity",
                            "_score_helpfulness", "_score_compliance">>,
              self |-> after]

\* The outcome of one call: whether it raised, the returned dict (value), the
\* scorers it invoked in order, and the instance afterwards.
score_response(self, response, context, post_title, now, ties_up) ==
    IF too_short(response)
    THEN [raised |-> FALSE, value |-> short_result, locals |-> [overall_score |-> 0],
          invoked |-> <<>>, self |-> instance_after(self, response)]
    ELSE CHOOSE outcome \in
            { collect(self, response, r, now, ties_up) :
                r \in {run_scorers(self, response, context, post_title)} } : TRUE

\* ------------------------------------------------------- the state
\* scorers: the attributes of each ResponseQualityScorer instance
\* input:   the arguments (response, context, post_title) a behaviour follows
\* ties_up: the side on which binary floating point puts a sum that lies exactly
\*          halfway between two tenths (see round1)
\* now:     the clock datetime.utcnow() reads; every call takes one tick
\* budget:  the number of calls a behaviour makes at most
\* log:     the outcomes of the calls made with input, oldest first, each with
\*          the instance it was made on
\* manager: the module-level ConnectionManager of websocket_service.py
\* rate_limiter: the module-level RateLimitManager of reddit_service.py
VARIABLES scorers, input, ties_up, now, budget, log, manager, rate_limiter

vars == <<scorers, input, ties_up, now, budget, log, manager, rate_limiter>>

\* two scorer instances
Scorers == {1, 2}

Inputs ==
    { [response |-> r, context |-> c, post_title |-> t] :
        r \in Texts, c \in Contexts, t \in Titles }

\* the unrounded overall score of an input (0 on the short path)
overall_of(in) ==
    score_response(__init__, in.response, in.context, in.post_title, 0, FALSE).locals.overall_score

TieSides(in) ==
    IF IsTie(overall_of(in)) THEN BOOLEAN ELSE {FALSE}

Init ==
    /\ scorers = [i \in Scorers |-> __init__]
    /\ manager = ConnectionManager
    /\ rate_limiter = RateLimitManager
    /\ input \in Inputs
    /\ ties_up \in TieSides(input)
    /\ now = 0
    /\ budget = 1
    /\ log = <<>>

\* Inputs of calls made in between the calls with input.
OtherInputs ==
    { [response |-> [phrases |-> {}, filler |-> "", flesch |-> [raises |-> FALSE, value |-> 70]],
       context |-> "None", post_title |-> ""],
      [response |-> [phrases |-> {P_buy, P_affiliate}, filler |-> F_25, flesch |-> [raises |-> TRUE, value |-> 0]],
       context |-> "prior research", post_title |-> "wifi router"] }

\* the part of an outcome the caller sees and the log keeps
Seen(out, i) ==
    [raised |-> out.raised, value |-> out.value, locals |-> out.locals, invoked |-> out.invoked,
     instance |-> i]

\* A caller calls scorers[i].score_response(input...) and keeps the outcome.
Call(i) ==
    /\ now < budget
    /\ \E out \in {score_response(scorers[i], input.response, input.context, input.post_title,
                                   now + 1, ties_up)} :
           /\ log' = Append(log, Seen(out, i))
           /\ scorers' = [scorers EXCEPT ![i] = out.self]
    /\ now' = now + 1
    /\ UNCHANGED <<manager, rate_limiter, input, ties_up, budget>>

\* A caller calls scorers[i].score_response with some other arguments.
CallOther(i, other) ==
    /\ now < budget
    /\ \E out \in {score_response(scorers[i], other.response, other.context, other.post_title,
                                   now + 1, ties_up)} :
           scorers' = [scorers EXCEPT ![i] = out.self]
    /\ now' = now + 1
    /\ UNCHANGED <<manager, rate_limiter, input, ties_up, budget, log>>

\* One call per behaviour, over all inputs.
Next ==
    \E i \in Scorers : Call(i)

Spec == Init /\ [][Next]_vars

\* ------------------------------------------------------- repeated calls
\* The inputs followed through several calls: every phrase combination without
\* filler, with one readability answer, without context, without a title and with one.
CallInputs ==
    { in \in Inputs :
        /\ in.response.filler = ""
        /\ in.response.flesch = [raises |-> FALSE, value |-> 70]
        /\ in.context = "None"
        /\ in.post_title \in {"", "fix slow wifi router?"} }

InitCalls ==
    /\ scorers = [i \in Scorers |-> __init__]
    /\ manager = ConnectionManager
    /\ rate_limiter = RateLimitManager
    /\ input \in CallInputs
    /\ ties_up \in TieSides(input)
    /\ now = 0
    /\ budget = MaxCalls
    /\ log = <<>>

NextCalls ==
    \/ \E i \in Scorers : Call(i)
    \/ \E i \in Scorers, other \in OtherInputs : CallOther(i, other)

SpecCalls == InitCalls /\ [][NextCalls]_vars

\* ------------------------------------------------------- the aggregation alone
\* Lines 136-176 applied to every breakdown of a grid: per dimension the values
\* around the cutoffs the flags and the review decision compare it with.
GridValues(minimum) ==
    {40, 41, 59, 60, minimum - 1, minimum, 85, 100}

\* relevance starts from 50 and is never lowered (lines 183-209)
RelevanceValues ==
    {50, 59, 60, 69, 70, 85, 100}

Breakdowns ==
    { [relevance |-> a * One, readability |-> b * One, authenticity |-> c * One,
       helpfulness |-> d * One, compliance |-> e * One] :
        a \in RelevanceValues, b \in GridValues(65), c \in GridValues(70),
        d \in GridValues(65), e \in GridValues(80) }

InitAgg ==
    /\ scorers = [i \in Scorers |-> __init__]
    /\ manager = ConnectionManager
    /\ rate_limiter = RateLimitManager
    /\ input \in {[scores |-> s] : s \in Breakdowns}
    /\ ties_up \in (IF IsTie(weighted_sum(input.scores)) THEN BOOLEAN ELSE {FALSE})
    /\ now = 0
    /\ budget = 1
    /\ log = <<>>

\* score_response from line 136 on, the five scorers having returned input.scores
Aggregate(i) ==
    /\ now < budget
    /\ \E agg \in {aggregate(scorers[i], input.scores, <<>>, now + 1, ties_up)} :
           log' = Append(log, [raised |-> FALSE, value |-> agg.value, locals |-> agg.locals,
                               invoked |-> <<"_score_relevance", "_score_readability",
                                             "_score_authenticity", "_score_helpfulness",
                                             "_score_compliance">>,
                               instance |-> i])
    /\ now' = now + 1
    /\ UNCHANGED <<manager, rate_limiter, scorers, input, ties_up, budget>>

NextAgg ==
    \E i \in Scorers : Aggregate(i)

SpecAgg == InitAgg /\ [][NextAgg]_vars

\* ------------------------------------------------------- _get_grade alone
\* Overall scores in [0, 100] (units of 1 / OverallUnit): each cutoff, the values one
\* twentieth of a point below and above it, 0 and 100.
Cutoffs == {50, 55, 60, 65, 70, 75, 80, 85, 90, 95}

GradeScores ==
    {0, 100 * OverallUnit}
    \cup {c * OverallUnit + d : c \in Cutoffs, d \in {0 - OverallUnit \div 20, 0, OverallUnit \div 20}}

InitGrade ==
    /\ scorers = [i \in Scorers |-> __init__]
    /\ manager = ConnectionManager
    /\ rate_limiter = RateLimitManager
    /\ input \in {[a |-> x, b |-> y] : x \in GradeScores, y \in GradeScores}
    /\ ties_up = FALSE
    /\ now = 0
    /\ budget = 1
    /\ log = <<>>

\* _get_grade(a) and _get_grade(b)
Grade ==
    /\ now < budget
    /\ log' = <<_get_grade(input.a), _get_grade(input.b)>>
    /\ now' = now + 1
    /\ UNCHANGED <<manager, rate_limiter, scorers, input, ties_up, budget>>

NextGrade == Grade

SpecGrade == InitGrade /\ [][NextGrade]_vars

\* ------------------------------------------------------- two calls compared
\* Pairs of inputs (a, b) scored one after the other on one instance:
\*   - a is b with the spam phrases added to the response, for every response of at
\*     most MaxPhrases phrases without them, among these phrases also the ones with
\*     several rule violations, with unhelpful phrases only and with one violation
\*     among polite phrases (one title, no context);
\*   - a and b are the same response, a with one title and no context, b with any
\*     title and context.
Pairs ==
    { [a |-> [response |-> [t EXCEPT !.phrases = @ \cup {P_spam}], context |-> "None",
              post_title |-> "wifi router"],
       b |-> [response |-> t, context |-> "None", post_title |-> "wifi router"]] :
        t \in { [phrases |-> ps, filler |-> f, flesch |-> [raises |-> FALSE, value |-> 70]] :
                  ps \in {s \in SUBSET (Phrases \cup {P_abuse, P_shrug, P_plug}) : Cardinality(s) <= MaxPhrases},
                  f \in Fillers \cup {""} } }
    \cup
    { [a |-> [response |-> t, context |-> c1, post_title |-> t1],
       b |-> [response |-> t, context |-> c2, post_title |-> t2]] :
        t \in {x \in Texts : x.filler \in {"", F_25} /\ x.flesch = [raises |-> FALSE, value |-> 70]},
        c1 \in {"None"}, t1 \in {"fix slow wifi router?"}, c2 \in Contexts, t2 \in Titles }

InitPair ==
    /\ scorers = [i \in Scorers |-> __init__]
    /\ manager = ConnectionManager
    /\ rate_limiter = RateLimitManager
    /\ input \in Pairs
    /\ ties_up \in TieSides(input.a) \cup TieSides(input.b)
    /\ now = 0
    /\ budget = 2
    /\ log = <<>>

\* A caller calls scorers[i].score_response on input.a and then on input.b.
CallBoth(i) ==
    /\ now + 2 <= budget
    /\ \E first \in {score_response(scorers[i], input.a.response, input.a.context,
                                     input.a.post_title, now + 1, ties_up)} :
       \E second \in {score_response(first.self, input.b.response, input.b.context,
                                      input.b.post_title, now + 2, ties_up)} :
           /\ log' = <<Seen(first, i), Seen(second, i)>>
           /\ scorers' = [scorers EXCEPT ![i] = second.self]
    /\ now' = now + 2
    /\ UNCHANGED <<manager, rate_limiter, input, ties_up, budget>>

NextPair ==
    \E i \in Scorers : CallBoth(i)

SpecPair == InitPair /\ [][NextPair]_vars

\* ------------------------------------------------------- concurrent calls
\* MaxCallers threads call score_response on the one instance scorers[1] without a
\* lock.  In this specification
\*   input[c] are the arguments of thread c,
\*   log[c]   is its call: at is the position in score_response (0: before line 90,
\*            k in 1..5: before the call of the k-th scorer, 6: before line 136,
\*            7: returned), entered is the clock when the call began, r are the local
\*            variables holding what the scorers returned so far, out is the outcome
\*            once returned.
\* A thread can be preempted between any two of its steps.
Callers == 1..MaxCallers

ConcurrentInputs ==
    OtherInputs \cup
    { [response |-> [phrases |-> {P_thanks, P_steps}, filler |-> "",
                     flesch |-> [raises |-> FALSE, value |-> 70]],
       context |-> "None", post_title |-> "fix slow wifi router?"] }

InitConcurrent ==
    /\ scorers = [i \in Scorers |-> __init__]
    /\ manager = ConnectionManager
    /\ rate_limiter = RateLimitManager
    /\ input \in [Callers -> ConcurrentInputs]
    /\ ties_up = FALSE
    /\ now = 0
    /\ budget = MaxCallers
    /\ log = [c \in Callers |-> [at |-> 0, entered |-> 0, r |-> <<>>, out |-> <<>>]]

\* line 90 and, for a response that is too short, the return of lines 91-105
Enter(c) ==
    /\ log[c].at = 0
    /\ IF too_short(input[c].response)
       THEN \E out \in {score_response(scorers[1], input[c].response, input[c].context,
                                        input[c].post_title, now, ties_up)} :
                /\ log' = [log EXCEPT ![c] = [at |-> 7, entered |-> now, r |-> <<>>, out |-> Seen(out, 1)]]
                /\ scorers' = [scorers EXCEPT ![1] = out.self]
       ELSE /\ log' = [log EXCEPT ![c] = [at |-> 1, entered |-> now, r |-> <<>>, out |-> <<>>]]
            /\ UNCHANGED scorers
    /\ UNCHANGED <<manager, rate_limiter, input, ties_up, now, budget>>

\* lines 112-132: the call of the k-th scorer on the shared instance as it is now
scorer_call(k, self, in) ==
    CASE k = 1 -> _score_relevance(self, in.response, in.post_title, in.context)
      [] k = 2 -> _score_readability(self, in.response)
      [] k = 3 -> _score_authenticity(self, in.response)
      [] k = 4 -> _score_helpfulness(self, in.response)
      [] k = 5 -> _score_compliance(self, in.response)

RunScorer(c) ==
    /\ log[c].at \in 1..5
    /\ \E result \in {scorer_call(log[c].at, scorers[1], input[c])} :
           log' = [log EXCEPT ![c] = [at |-> log[c].at + 1, entered |-> log[c].entered,
                                      r |-> Append(log[c].r, result), out |-> <<>>]]
    /\ UNCHANGED <<manager, rate_limiter, scorers, input, ties_up, now, budget>>

\* lines 136-176: the aggregation, with the thresholds of the shared instance as it is
\* now and the clock read at line 174
Return(c) ==
    /\ log[c].at = 6
    /\ \E out \in {collect(scorers[1], input[c].response,
                           [rel |-> log[c].r[1], rea |-> log[c].r[2], aut |-> log[c].r[3],
                            hel |-> log[c].r[4], com |-> log[c].r[5]], now + 1, ties_up)} :
           /\ log' = [log EXCEPT ![c] = [at |-> 7, entered |-> log[c].entered, r |-> log[c].r,
                                      out |-> Seen(out, 1)]]
           /\ scorers' = [scorers EXCEPT ![1] = out.self]
    /\ now' = now + 1
    /\ UNCHANGED <<manager, rate_limiter, input, ties_up, budget>>

NextConcurrent ==
    \E c \in Callers : Enter(c) \/ RunScorer(c) \/ Return(c)

SpecConcurrent == InitConcurrent /\ [][NextConcurrent]_vars

\* ------------------------------------------------------- the legacy suggestions
\* A caller obtains a result, either by the aggregation of a breakdown of the grid or
\* by score_response on a response without a title (among them the responses that
\* are too short), and then passes the breakdown of the result to
\* get_improvement_suggestions.  log[1] is the result, log[2] the legacy call.
LegacyInputs ==
    {[scores |-> s] : s \in Breakdowns}
    \cup {in \in CallInputs : in.post_title = ""}

InitLegacy ==
    /\ scorers = [i \in Scorers |-> __init__]
    /\ manager = ConnectionManager
    /\ rate_limiter = RateLimitManager
    /\ input \in LegacyInputs
    /\ ties_up \in (IF "scores" \in DOMAIN input
                    THEN (IF IsTie(weighted_sum(input.scores)) THEN BOOLEAN ELSE {FALSE})
                    ELSE TieSides(input))
    /\ now = 0
    /\ budget = 1
    /\ log = <<>>

\* scorers[i].get_improvement_suggestions(result['breakdown'])
Legacy(i) ==
    /\ Len(log) = 1
    /\ ~log[1].raised
    /\ \E scores \in {log[1].value.breakdown} :
       \E quality_flags \in {_generate_quality_flags(scorers[i], scores, mean(scores))} :
       \E out \in {get_improvement_suggestions(scorers[i], scores)} :
           log' = Append(log, [raised |-> FALSE, value |-> out,
                               locals |-> [overall_score |-> mean(scores),
                                           quality_flags |-> quality_flags],
                               invoked |-> <<"_generate_quality_flags",
                                             "_generate_improvement_suggestions">>,
                               instance |-> i])
    /\ UNCHANGED <<manager, rate_limiter, scorers, input, ties_up, now, budget>>

NextLegacy ==
    \/ \E i \in Scorers : "scores" \in DOMAIN input /\ Aggregate(i)
    \/ \E i \in Scorers : "response" \in DOMAIN input /\ Call(i)
    \/ \E i \in Scorers : Legacy(i)

SpecLegacy == InitLegacy /\ [][NextLegacy]_vars


\* ------------------------------------------------------- generate_reddit_replies
\* openai_service.generate_reddit_replies(prompt, context, num).  In this
\* specification
\*   input.client      says whether the module-level client is configured,
\*   input.completion  is what client.chat.completions.create does: it raises, or it
\*                     answers a text, given as its lines; a line is a response with or
\*                     without a leading "- ",
\*   input.num         is the parameter num,
\*   log               holds the returned list.
\* The lines a completion is made of: a helpful one, one of spam, one of unhelpful
\* phrases, one of 7 characters, one of spaces only, one with trailing spaces.
Lines ==
    { [bullet |-> b, phrases |-> ps, filler |-> f, flesch |-> [raises |-> FALSE, value |-> 70]] :
        b \in {FALSE}, ps \in {{P_steps}, {P_shrug}, {P_blank}, {P_thanks, P_blank}}, f \in {""} }
    \cup
    { [bullet |-> b, phrases |-> ps, filler |-> f, flesch |-> [raises |-> FALSE, value |-> 70]] :
        b \in {TRUE}, ps \in {{P_spam}, {P_example}, {}}, f \in {""} }
    \cup
    { [bullet |-> b, phrases |-> ps, filler |-> f, flesch |-> [raises |-> FALSE, value |-> 70]] :
        b \in {FALSE}, ps \in {{}}, f \in {F_2} }

RECURSIVE Completions(_)
Completions(n) ==
    IF n = 0 THEN {<<>>}
    ELSE Completions(n - 1)
         \cup {Append(text, line) : text \in {t \in Completions(n - 1) : Len(t) = n - 1},
                                    line \in Lines}

\* line 216: "if s.strip()" keeps the lines that are not made of whitespace only
not_blank(s) ==
    s.bullet \/ StrLen(strip(PartSeq(s))) > 0

\* line 216: s.strip("- •\n ") removes the leading "- " and the spaces at both ends
strip_bullet(s) ==
    [phrases |-> {p \in s.phrases : \E k \in DOMAIN strip(PartSeq(s)) : strip(PartSeq(s))[k] = p},
     filler |-> s.filler, flesch |-> s.flesch]

\* lines 229-230: list.sort(key=score, reverse=True) is stable: entries of equal
\* score keep their order
RECURSIVE sort(_)
sort(scored_responses) ==
    IF scored_responses = <<>> THEN <<>>
    ELSE CHOOSE result \in
            { SelectSeq(rest, LAMBDA x : x.score > last.score)
              \o SelectSeq(rest, LAMBDA x : x.score = last.score)
              \o <<last>>
              \o SelectSeq(rest, LAMBDA x : x.score < last.score) :
                rest \in {sort(SubSeq(scored_responses, 1, Len(scored_responses) - 1))},
                last \in {scored_responses[Len(scored_responses)]} } : TRUE

\* lines 233-243: the entries appended while len(scored_responses) < num
RECURSIVE fallbacks(_, _)
fallbacks(scored_responses, num) ==
    IF Len(scored_responses) >= num THEN scored_responses
    ELSE CHOOSE result \in
            { fallbacks(longer, num) :
                longer \in {Append(scored_responses,
                                   [content |-> [generated |-> Len(scored_responses) + 1],
                                    score |-> 50,
                                    quality_breakdown |->
                                        [relevance |-> 50 * One, readability |-> 50 * One,
                                         authenticity |-> 50 * One, helpfulness |-> 50 * One,
                                         compliance |-> 50 * One],
                                    feedback |-> <<"Fallback response">>,
                                    grade |-> "D"])} } : TRUE

\* lines 218-227: the entry of a suggestion; int() of the returned overall score
scored_response(suggestion, context, prompt, clock, up) ==
    CHOOSE entry \in
        { [content |-> suggestion,
           score |-> quality_data.overall_score \div 10,
           quality_breakdown |-> quality_data.breakdown,
           feedback |-> quality_data.feedback,
           grade |-> quality_data.grade] :
            quality_data \in {score_response(__init__, suggestion, context, prompt, clock, up).value} } : TRUE

\* lines 164-262
generate_reddit_replies(prompt, context, num, configured, completion, clock, up) ==
    IF ~configured
    THEN << [content |-> "[OpenAI not configured] Suggestion 1", score |-> 0,
             quality_breakdown |-> <<>>, feedback |-> <<"OpenAI API not configured">>, grade |-> "F"],
            [content |-> "[OpenAI not configured] Suggestion 2", score |-> 0,
             quality_breakdown |-> <<>>, feedback |-> <<"OpenAI API not configured">>, grade |-> "F"] >>
    ELSE IF completion.raises
    THEN << [content |-> "[Error generating response]", score |-> 0,
             quality_breakdown |-> short_result.breakdown,
             feedback |-> <<"OpenAI API error">>, grade |-> "F"] >>
    ELSE CHOOSE returned \in
            { SubSeq(filled, 1, Min(num, Len(filled))) :
                filled \in
                    { fallbacks(sort([k \in DOMAIN long |->
                                         scored_response(long[k], context, prompt, clock, up)]), num) :
                        long \in
                            { SelectSeq(SubSeq(raw_suggestions, 1, Min(num, Len(raw_suggestions))),
                                        LAMBDA s : StrLen(PartSeq(s)) >= 10) :
                                raw_suggestions \in
                                    { [k \in DOMAIN kept |-> strip_bullet(kept[k])] :
                                        kept \in {SelectSeq(completion.text, not_blank)} } } } } : TRUE

ReplyInputs ==
    { [client |-> c, completion |-> r, num |-> n, prompt |-> "fix slow wifi router?",
       context |-> "None"] :
        c \in BOOLEAN,
        r \in {[raises |-> TRUE, text |-> <<>>]}
              \cup {[raises |-> FALSE, text |-> t] : t \in Completions(MaxNum)},
        n \in 1..MaxNum }

InitReplies ==
    /\ scorers = [i \in Scorers |-> __init__]
    /\ manager = ConnectionManager
    /\ rate_limiter = RateLimitManager
    /\ input \in ReplyInputs
    /\ ties_up \in BOOLEAN
    /\ now = 0
    /\ budget = 1
    /\ log = <<>>

\* A caller calls generate_reddit_replies(input.prompt, input.context, input.num).
Reply ==
    /\ now < budget
    /\ \E returned \in {generate_reddit_replies(input.prompt, input.context, input.num,
                                                 input.client, input.completion, now + 1, ties_up)} :
           log' = <<returned>>
    /\ now' = now + 1
    /\ UNCHANGED <<manager, rate_limiter, scorers, input, ties_up, budget>>

NextReplies == Reply

SpecReplies == InitReplies /\ [][NextReplies]_vars

\* ------------------------------------------------------- the connection manager
\* The coroutines that use the module-level manager on one event loop: one
\* websocket_endpoint per websocket and one task that broadcasts.  A coroutine runs
\* until its next await; in this specification
\*   input[w]  are the arguments client_id and user_id of the endpoint of websocket w,
\*   log[w]    is the endpoint of w: at is the await it stands at ("start": accept,
\*             "confirm" and "welcome": the two sends of connect, "open": receive_text,
\*             "reply": the send of the error reply; "raised" and "done": ended),
\*   log[Broadcaster] is the broadcasting task: "idle", or "sending" to connection
\*             with todo the connections of the copy not yet visited and disconnected
\*             the local set of line 292,
\*   unknown   says whether a call of manager.disconnect by the coroutine logged the
\*             warning of line 263 (the websocket was not in connection_info),
\*   budget    bounds the broadcasts and error replies.
\* two websockets, two client ids, and the index of the broadcasting task in log
Sockets == {1, 2}
Clients == {10, 20}
Broadcaster == 3

InitManager ==
    /\ scorers = [i \in Scorers |-> __init__]
    /\ manager = ConnectionManager
    /\ rate_limiter = RateLimitManager
    /\ input \in {in \in [Sockets -> {[client_id |-> c, user_id |-> 7] : c \in Clients}] :
                     in[1].client_id = 10}
    /\ ties_up = FALSE
    /\ now = 0
    /\ budget = MaxSends
    /\ log = [t \in 1..Broadcaster |->
                IF t \in Sockets THEN [at |-> "start", unknown |-> FALSE]
                ELSE [at |-> "idle", connection |-> 0, todo |-> {}, disconnected |-> {},
                      unknown |-> FALSE]]

\* connect, lines 153-181 and 232-235: websocket.accept() returns or raises
Accept(w) ==
    /\ log[w].at = "start"
    /\ \E accepted \in BOOLEAN :
           IF accepted
           THEN /\ manager' = connect_accepted(manager, w, input[w].client_id, input[w].user_id)
                /\ log' = [log EXCEPT ![w].at = "confirm"]
           ELSE /\ manager' = connect_failed(manager)
                /\ log' = [log EXCEPT ![w].at = "raised"]
    /\ UNCHANGED <<scorers, input, ties_up, now, budget, rate_limiter>>

\* send_personal_message called by connect (lines 209, 229) or by the endpoint (line
\* 511): websocket.send_text returns or raises
Sent(w) ==
    /\ log[w].at \in {"confirm", "welcome", "reply"}
    /\ \E delivered \in BOOLEAN :
           /\ manager' = send_personal_message(manager, w, delivered)
           /\ log' = [log EXCEPT ![w] =
                         [at |-> IF log[w].at = "confirm" THEN "welcome" ELSE "open",
                          unknown |-> log[w].unknown
                                      \/ (~delivered /\ w \notin DOMAIN manager.connection_info)]]
    /\ UNCHANGED <<scorers, input, ties_up, now, budget, rate_limiter>>

\* websocket_endpoint, lines 506-514: a text that is not JSON arrives
InvalidJSON(w) ==
    /\ log[w].at = "open"
    /\ budget > 0
    /\ budget' = budget - 1
    /\ log' = [log EXCEPT ![w].at = "reply"]
    /\ UNCHANGED <<scorers, input, ties_up, now, manager, rate_limiter>>

\* websocket_endpoint, lines 516-521: receive_text raises
Closed(w) ==
    /\ log[w].at = "open"
    /\ manager' = disconnect(manager, w)
    /\ log' = [log EXCEPT ![w] = [at |-> "done",
                                  unknown |-> log[w].unknown
                                              \/ w \notin DOMAIN manager.connection_info]]
    /\ UNCHANGED <<scorers, input, ties_up, now, budget, rate_limiter>>

\* _ping_connection, lines 49-53 and 66-69: the connection is marked unhealthy
Unhealthy(w) ==
    /\ is_healthy(manager, w)
    /\ manager' = [manager EXCEPT !.health_monitor.connection_health[w] = FALSE]
    /\ UNCHANGED <<scorers, input, ties_up, now, budget, log, rate_limiter>>

\* broadcast_to_client, lines 295-319, from the top of the loop to the next await or
\* to the return.  The copy is a set: the loop visits it in any order, so before the
\* next healthy connection it has put any number of the unhealthy ones aside.
Advance(self, todo, disconnected) ==
    \E skipped \in SUBSET {x \in todo : ~is_healthy(self, x)} :
        \/ \E connection \in {x \in todo : is_healthy(self, x)} :
               /\ manager' = self
               /\ log' = [log EXCEPT ![Broadcaster] =
                             [at |-> "sending", connection |-> connection,
                              todo |-> todo \ (skipped \cup {connection}),
                              disconnected |-> disconnected \cup skipped,
                              unknown |-> log[Broadcaster].unknown]]
        \/ /\ skipped = todo
           /\ manager' = disconnect_each(self, disconnected \cup skipped)
           /\ log' = [log EXCEPT ![Broadcaster] =
                         [at |-> "idle", connection |-> 0, todo |-> {}, disconnected |-> {},
                          unknown |-> log[Broadcaster].unknown
                                      \/ (disconnected \cup skipped) \ DOMAIN self.connection_info # {}]]

\* broadcast_to_client(message, client_id), lines 282-295
Broadcast(client_id) ==
    /\ log[Broadcaster].at = "idle"
    /\ budget > 0
    /\ budget' = budget - 1
    /\ IF client_id \notin DOMAIN manager.active_connections
       THEN UNCHANGED <<manager, log>>
       ELSE Advance(manager, manager.active_connections[client_id], {})
    /\ UNCHANGED <<scorers, input, ties_up, now, rate_limiter>>

\* broadcast_to_client, lines 303-313: connection.send_text returns or raises
BroadcastSent ==
    /\ log[Broadcaster].at = "sending"
    /\ \E delivered \in BOOLEAN :
           IF delivered
           THEN Advance(sent(manager, log[Broadcaster].connection),
                        log[Broadcaster].todo, log[Broadcaster].disconnected)
           ELSE Advance(manager, log[Broadcaster].todo,
                        log[Broadcaster].disconnected \cup {log[Broadcaster].connection})
    /\ UNCHANGED <<scorers, input, ties_up, now, budget, rate_limiter>>

NextManager ==
    \/ \E w \in Sockets : Accept(w)
    \/ \E w \in Sockets : Sent(w)
    \/ \E w \in Sockets : InvalidJSON(w)
    \/ \E w \in Sockets : Closed(w)
    \/ \E w \in Sockets : Unhealthy(w)
    \/ \E client_id \in Clients : Broadcast(client_id)
    \/ BroadcastSent

SpecManager == InitManager /\ [][NextManager]_vars

\* ------------------------------------------------------- a wrapped Reddit call
\* One call of a function wrapped by with_reddit_error_handling.  In this
\* specification
\*   input.outcomes[k] is what the k-th invocation of the wrapped function does,
\*   input.resolves    says whether praw.exceptions.ResponseException exists,
\*   log[1]            is the call: at is "loop" (line 82), "returned" or "raised";
\*                     retry_count the local of line 80, invocations the number of
\*                     invocations of the wrapped function so far, exception what
\*                     the wrapper raised,
\*   now               is the clock in seconds, advanced by every time.sleep.
RetryInputs ==
    { [outcomes |-> <<a, b, c>>, resolves |-> r] :
        a \in Outcomes, b \in Outcomes, c \in Outcomes, r \in BOOLEAN }

InitRetry ==
    /\ scorers = [i \in Scorers |-> __init__]
    /\ manager = ConnectionManager
    /\ rate_limiter = RateLimitManager
    /\ input \in RetryInputs
    /\ ties_up = FALSE
    /\ now = 0
    /\ budget = 1
    /\ log = << [at |-> "loop", retry_count |-> 0, invocations |-> 0, exception |-> "None"] >>

\* lines 82-127: one iteration of the loop, and the raise of line 127 when the loop
\* is left
Attempt ==
    /\ log[1].at = "loop"
    /\ \E w \in {wait_if_needed(rate_limiter, now)} :
       \E outcome \in {input.outcomes[log[1].invocations + 1]} :
           IF outcome.kind = "returns"
           THEN /\ rate_limiter' = w.self
                /\ now' = now + w.slept
                /\ log' = << [log[1] EXCEPT !.at = "returned", !.invocations = @ + 1] >>
           ELSE \E h \in {handlers(w.self, outcome, log[1].retry_count, input.resolves)} :
                    /\ rate_limiter' = h.self
                    /\ now' = now + w.slept + h.slept
                    /\ log' = << [at |-> IF h.ends = "continue" /\ h.retry_count < max_retries
                                         THEN "loop" ELSE "raised",
                                  retry_count |-> h.retry_count,
                                  invocations |-> log[1].invocations + 1,
                                  exception |-> IF h.ends = "continue"
                                                THEN (IF h.retry_count < max_retries THEN "None"
                                                      ELSE "RedditAPIError")
                                                ELSE h.ends] >>
    /\ UNCHANGED <<scorers, input, ties_up, budget, manager>>

NextRetry == Attempt

SpecRetry == InitRetry /\ [][NextRetry]_vars

\* ======================================================= properties
\* the calls of the log that returned on the normal path (the scorers ran)
Scored(i) ==
    ~log[i].raised /\ log[i].invoked # <<>>

\* the text has fewer than 10 characters once leading and trailing whitespace is removed
FewerThanTen(response) ==
    StrLen(strip(PartSeq(response))) < 10

ResultFields ==
    {"overall_score", "breakdown", "feedback", "grade", "quality_flags",
     "manual_review_required", "improvement_suggestions"}

\* C1: score_response is total: for every response text (empty, whitespace only,
\* short, long, one the readability library fails on), title and context it returns a
\* result and never raises.
C1_Total ==
    \A i \in DOMAIN log :
        /\ ~log[i].raised
        /\ ResultFields \subseteq DOMAIN log[i].value

\* a call returned for a text of punctuation and non-ASCII words the readability
\* library raises on, with a title that has no words
C1_Witness ==
    /\ Len(log) = 1
    /\ ~log[1].raised
    /\ log[1].invoked # <<>>
    /\ input.response.phrases = {P_punct, P_unicode}
    /\ input.response.flesch.raises
    /\ input.post_title = "?!"

\* C2: in every returned result each of the five dimension scores and the overall
\* score lie in [0, 100].
C2_Clamped ==
    \A i \in DOMAIN log :
        ~log[i].raised =>
            /\ \A d \in DOMAIN log[i].value.breakdown :
                   0 <= log[i].value.breakdown[d] /\ log[i].value.breakdown[d] <= 100 * One
            /\ 0 <= log[i].value.overall_score /\ log[i].value.overall_score <= 1000

\* a scored response whose authenticity comes to 50 - 5 * 15 + 10 = -15 before the
\* clamp (five negative indicators) and is returned as 0
C2_Witness ==
    /\ Len(log) = 1
    /\ Scored(1)
    /\ input.response.phrases = {P_buy, P_affiliate}
    /\ input.response.filler = ""
    /\ CountMatching(negative_indicators, input.response) = 5
    /\ log[1].value.breakdown.authenticity = 0

\* C3: a response that is empty or has fewer than 10 characters after trimming gets
\* the fixed short result (overall 0, every dimension 0, grade F, manual review, one
\* feedback entry, the single flag TOO_SHORT) and no dimension scorer is invoked.
C3_ShortCircuit ==
    \A i \in DOMAIN log :
        FewerThanTen(input.response) =>
            /\ ~log[i].raised
            /\ log[i].invoked = <<>>
            /\ log[i].value.overall_score = 0
            /\ \A d \in DOMAIN log[i].value.breakdown : log[i].value.breakdown[d] = 0
            /\ log[i].value.grade = "F"
            /\ log[i].value.manual_review_required = TRUE
            /\ Len(log[i].value.feedback) = 1
            /\ log[i].value.quality_flags = <<"TOO_SHORT">>

\* a call returned for a text of 11 characters of which 7 remain after trimming
C3_Witness ==
    /\ Len(log) = 1
    /\ input.response.phrases = {P_blank}
    /\ input.response.filler = F_2
    /\ StrLen(PartSeq(input.response)) >= 10
    /\ FewerThanTen(input.response)

\* C4: whenever the compliance score of a result is below 80 the result requires
\* manual review, whatever the other four scores and the overall score are.
C4_ComplianceReview ==
    \A i \in DOMAIN log :
        (~log[i].raised /\ log[i].value.breakdown.compliance < 80 * One)
            => log[i].value.manual_review_required = TRUE

\* compliance 79, every other dimension 100 (overall 96.85): nothing but the
\* compliance score asks for review
C4_Witness ==
    /\ Len(log) = 1
    /\ log[1].value.breakdown =
           [relevance |-> 100 * One, readability |-> 100 * One, authenticity |-> 100 * One,
            helpfulness |-> 100 * One, compliance |-> 79 * One]
    /\ log[1].value.manual_review_required = TRUE

\* a returned dict without the time it was scored at
Timeless(value) ==
    IF "scoring_metadata" \in DOMAIN value
    THEN [value EXCEPT !.scoring_metadata.scored_at = 0]
    ELSE value

C6_Metadata ==
    \A i \in DOMAIN log :
        ~log[i].raised =>
            /\ "scoring_metadata" \in DOMAIN log[i].value
            /\ log[i].value.scoring_metadata.weights = weights
            /\ DOMAIN log[i].value.scoring_metadata.thresholds_used
                   = {"auto_approve", "manual_review", "reject"}
            /\ log[i].value.scoring_metadata.scored_at \in 1 .. now

\* C7: manual review is required exactly when the overall score is at most 40, or a
\* flag COMPLIANCE_RISK, CRITICAL_DIMENSION_FAILURE or REJECT_CANDIDATE is present, or
\* compliance is below 80, or at least two dimension scores are below 60, or the overall
\* score is at least 60 and below 85.
C7_ManualReview ==
    \A i \in DOMAIN log :
        ~log[i].raised =>
            LET v == log[i].value
                overall == log[i].locals.overall_score
            IN  v.manual_review_required =
                    ( \/ overall <= 40 * OverallUnit
                      \/ Has(v.quality_flags, "COMPLIANCE_RISK")
                      \/ Has(v.quality_flags, "CRITICAL_DIMENSION_FAILURE")
                      \/ Has(v.quality_flags, "REJECT_CANDIDATE")
                      \/ v.breakdown.compliance < 80 * One
                      \/ Cardinality({d \in DOMAIN v.breakdown : v.breakdown[d] < 60 * One}) >= 2
                      \/ (60 * OverallUnit <= overall /\ overall < 85 * OverallUnit) )

\* readability 59 and authenticity 59, the rest 100 (overall 85.65): review is
\* required for the two scores below 60 alone
C7_Witness ==
    /\ Len(log) = 1
    /\ log[1].value.breakdown =
           [relevance |-> 100 * One, readability |-> 59 * One, authenticity |-> 59 * One,
            helpfulness |-> 100 * One, compliance |-> 100 * One]
    /\ log[1].value.manual_review_required = TRUE

\* the flags that depend on one dimension or on all of them, each present exactly
\* when its condition holds
FlagsOfDimensions(v) ==
    /\ Has(v.quality_flags, "LOW_RELEVANCE") = (v.breakdown.relevance < 70 * One)
    /\ Has(v.quality_flags, "POOR_READABILITY") = (v.breakdown.readability < 65 * One)
    /\ Has(v.quality_flags, "INAUTHENTIC_TONE") = (v.breakdown.authenticity < 70 * One)
    /\ Has(v.quality_flags, "LOW_HELPFULNESS") = (v.breakdown.helpfulness < 65 * One)
    /\ Has(v.quality_flags, "COMPLIANCE_RISK") = (v.breakdown.compliance < 80 * One)
    /\ Has(v.quality_flags, "ALL_DIMENSIONS_EXCELLENT")
           = (\A d \in DOMAIN v.breakdown : v.breakdown[d] >= 85 * One)
    /\ Has(v.quality_flags, "CRITICAL_DIMENSION_FAILURE")
           = (\E d \in DOMAIN v.breakdown : v.breakdown[d] <= 40 * One)

\* C8 as stated: each flag of a scored response is present exactly when its own
\* condition holds, independently of the others: EXCELLENT_QUALITY iff overall >= 90,
\* AUTO_APPROVE_CANDIDATE iff overall >= 85, REJECT_CANDIDATE iff overall <= 40, and the
\* dimension flags.
C8_Independent ==
    \A i \in DOMAIN log :
        Scored(i) =>
            LET v == log[i].value
                overall == log[i].locals.overall_score
            IN  /\ Has(v.quality_flags, "EXCELLENT_QUALITY") = (overall >= 90 * OverallUnit)
                /\ Has(v.quality_flags, "AUTO_APPROVE_CANDIDATE") = (overall >= 85 * OverallUnit)
                /\ Has(v.quality_flags, "REJECT_CANDIDATE") = (overall <= 40 * OverallUnit)
                /\ FlagsOfDimensions(v)

\* C8: the flags of a scored response: EXCELLENT_QUALITY iff overall >= 90,
\* AUTO_APPROVE_CANDIDATE iff 85 <= overall < 90 (the overall flags are tiers, at most
\* one of them is present), REJECT_CANDIDATE iff overall <= 40, and each dimension
\* flag exactly when its own condition holds.
C8_Tiered ==
    \A i \in DOMAIN log :
        Scored(i) =>
            LET v == log[i].value
                overall == log[i].locals.overall_score
            IN  /\ Has(v.quality_flags, "EXCELLENT_QUALITY") = (overall >= 90 * OverallUnit)
                /\ Has(v.quality_flags, "AUTO_APPROVE_CANDIDATE")
                       = (85 * OverallUnit <= overall /\ overall < 90 * OverallUnit)
                /\ Has(v.quality_flags, "REJECT_CANDIDATE") = (overall <= 40 * OverallUnit)
                /\ FlagsOfDimensions(v)

\* a scored response with an overall score of at least 90: flagged EXCELLENT_QUALITY
\* and not AUTO_APPROVE_CANDIDATE
C8_Witness ==
    /\ Len(log) = 1
    /\ Scored(1)
    /\ log[1].locals.overall_score >= 90 * OverallUnit
    /\ Has(log[1].value.quality_flags, "EXCELLENT_QUALITY")
    /\ ~Has(log[1].value.quality_flags, "AUTO_APPROVE_CANDIDATE")

\* C9: the grade of a result is the letter the cutoffs (95 A+, 90 A, 85 A-, 80 B+,
\* 75 B, 70 B-, 65 C+, 60 C, 55 C-, 50 D, else F) give for the overall_score the
\* result carries.
C9_GradeOfReturned ==
    \A i \in DOMAIN log :
        ~log[i].raised =>
            log[i].value.grade = _get_grade(FromTenths(log[i].value.overall_score))

GradeOrder == <<"F", "D", "C-", "C", "C+", "B-", "B", "B+", "A-", "A", "A+">>

Rank(grade) ==
    CHOOSE k \in DOMAIN GradeOrder : GradeOrder[k] = grade

\* C10: the grade is monotone in the overall score: a score that is not lower never
\* gets a lower grade.
C10_Monotone ==
    Len(log) = 2 =>
        (input.a <= input.b => Rank(log[1]) <= Rank(log[2]))

\* 54.95 graded D and 55 graded C-
C10_Witness ==
    /\ Len(log) = 2
    /\ input.a = 55 * OverallUnit - OverallUnit \div 20
    /\ input.b = 55 * OverallUnit
    /\ log = <<"D", "C-">>

\* ======================================================= aggregation properties
\* the smallest and the largest of the five dimension scores, in units of 1 / OverallUnit
LowestDimension(breakdown) ==
    CHOOSE x \in {breakdown[d] * 100 : d \in DOMAIN breakdown} :
        \A d \in DOMAIN breakdown : x <= breakdown[d] * 100

HighestDimension(breakdown) ==
    CHOOSE x \in {breakdown[d] * 100 : d \in DOMAIN breakdown} :
        \A d \in DOMAIN breakdown : x >= breakdown[d] * 100

\* C11: on the normal path the overall score is 0.25 relevance + 0.15 readability +
\* 0.20 authenticity + 0.25 helpfulness + 0.15 compliance, returned rounded to one
\* decimal; the weights are the same constants in every call and sum to exactly 1, so
\* the overall score, before and after the rounding, lies between the smallest and the
\* largest dimension score.
C11_WeightedSum ==
    \A i \in DOMAIN log :
        Scored(i) =>
            LET v == log[i].value
                b == v.breakdown
                w == v.scoring_metadata.weights
                overall == log[i].locals.overall_score
            IN  /\ overall = 25 * b.relevance + 15 * b.readability + 20 * b.authenticity
                             + 25 * b.helpfulness + 15 * b.compliance
                /\ v.overall_score = round1(overall, ties_up)
                /\ 2 * FromTenths(v.overall_score) - 2 * overall \in -(OverallUnit \div 10) .. (OverallUnit \div 10)
                /\ w = [relevance |-> 25, readability |-> 15, authenticity |-> 20,
                        helpfulness |-> 25, compliance |-> 15]
                /\ w.relevance + w.readability + w.authenticity + w.helpfulness + w.compliance = 100
                /\ LowestDimension(b) <= overall /\ overall <= HighestDimension(b)
                /\ LowestDimension(b) <= FromTenths(v.overall_score)
                /\ FromTenths(v.overall_score) <= HighestDimension(b)

\* relevance 60, readability 85, authenticity 41, helpfulness 100, compliance 59: the
\* sum is 69.8, strictly between the lowest score 41 and the highest 100
C11_Witness ==
    /\ Len(log) = 1
    /\ Scored(1)
    /\ log[1].value.breakdown =
           [relevance |-> 60 * One, readability |-> 85 * One, authenticity |-> 41 * One,
            helpfulness |-> 100 * One, compliance |-> 59 * One]
    /\ log[1].locals.overall_score = 6980 * One
    /\ log[1].value.overall_score = 698

\* ======================================================= promotional text
\* the response holds an affiliate-style link marker and "BUY NOW!!!"
Promotional(response) ==
    {P_buy, P_affiliate} \subseteq response.phrases

\* what the loop over major_violations (lines 425-428) takes off the base score of 85
MajorDeduction(response) ==
    85 - major_loop(1, response, [score |-> 85, feedback |-> <<>>]).score

SpamPair ==
    /\ Len(log) = 2 /\ Scored(1) /\ Scored(2)
    /\ P_spam \in input.a.response.phrases
    /\ P_spam \notin input.b.response.phrases

\* the text matches none of the pattern groups "BUY NOW" and "guaranteed" belong to:
\* the first two of negative_indicators and the major violation "spam indicators"
SpamFree(response) ==
    /\ ~Search(negative_indicators[1], response)
    /\ ~Search(negative_indicators[2], response)
    /\ ~Search(major_violations[2].match, response)

Instances(prefix, suffix) ==
    {prefix \o ToString(n) \o suffix : n \in 1..30}

\* The feedback.append statements of the five scorers in the order of the source
\* (lines 197-209, 225-255, 277-298, 322-404, 428-500), the loops unrolled over their
\* lists; each entry is the set of messages the statement can append.
FeedbackStatements ==
    << {"Good keyword relevance to original post"},
       {"Low keyword relevance - consider addressing the main topic"},
       {"Directly addresses the poster"},
       {"Attempts to answer the question"},
       {"Excellent readability level"},
       {"Good readability level"},
       {"Text may be too complex - consider simplifying"},
       {"Text may be too simple"},
       {"Good response length"},
       {"Response too short"},
       {"Response may be too long for Reddit"},
       {"Good sentence length"},
       {"Uses appropriate Reddit tone"},
       {"Contains promotional or spam-like language"},
       {"Includes personal perspective"},
       {"May sound too formal for Reddit"},
       Instances("Includes specific steps/instructions (", " instances)"),
       Instances("Includes concrete recommendations (", " instances)"),
       Instances("Includes detailed explanations (", " instances)"),
       Instances("Includes multiple alternatives (", " instances)"),
       Instances("Includes troubleshooting help (", " instances)"),
       {"Includes external resources"},
       {"Includes personal experience"},
       {"Includes specific examples"},
       {"Includes time estimates"},
       {"Includes cost information"},
       {"Shows structured approach"},
       {"Shows pros and cons"},
       {"Shows warnings/cautions"},
       {"Shows follow-up support"},
       Instances("Provides actionable advice (", " action words)"),
       {"Good detail level"},
       {"Comprehensive detail"},
       {"Too brief to be helpful"},
       Instances("Contains vague responses (", " instances)"),
       Instances("Contains dismissive language (", " instances)"),
       Instances("Contains non-answers (", " instances)"),
       Instances("Contains circular reasoning (", " instances)"),
       {"Acknowledges complexity and provides comprehensive help"},
       {"Exceptionally helpful response"},
       {"Very helpful response"},
       {"Limited helpfulness - consider adding more specific advice"},
       {"Major violation: self-promotion detected"},
       {"Major violation: spam indicators detected"},
       {"Major violation: personal info detected"},
       {"Major violation: harassment detected"},
       {"Major violation: vote manipulation detected"},
       {"Major violation: affiliate links detected"},
       Instances("Minor violation: excessive caps (", " instances)"),
       Instances("Minor violation: excessive punctuation (", " instances)"),
       Instances("Minor violation: repetitive text (", " instances)"),
       Instances("Minor violation: all caps words (", " instances)"),
       Instances("Spam-like patterns detected (", " instances)"),
       {"Positive indicator: respectful language"},
       {"Positive indicator: helpful phrases"},
       {"Positive indicator: community spirit"},
       {"Positive indicator: source attribution"},
       {"Appropriate response length"},
       {"Response may be too long for Reddit"},
       {"Response too short to be helpful"},
       {"Overly excited tone"},
       {"Follows Reddit edit etiquette"},
       {"Includes helpful summary"},
       {"Excellent compliance with Reddit guidelines"},
       {"Good compliance with minor areas for improvement"},
       {"Significant compliance issues require attention"} >>

\* feedback picks its messages from the statements k, k + 1, ... in increasing order
RECURSIVE InSourceOrder(_, _)
InSourceOrder(feedback, k) ==
    IF feedback = <<>> THEN TRUE
    ELSE IF k > Len(FeedbackStatements) THEN FALSE
    ELSE IF Head(feedback) \in FeedbackStatements[k] THEN InSourceOrder(Tail(feedback), k + 1)
    ELSE InSourceOrder(feedback, k + 1)

\* C14: the feedback of a result is the concatenation of the feedback of relevance,
\* readability, authenticity, helpfulness and compliance in this order, and inside each
\* dimension the messages come in the order of the scorer's checks; the list is never
\* sorted.
C14_FeedbackOrder ==
    \A i \in DOMAIN log :
        Scored(i) =>
            /\ \E r \in {run_scorers(scorers[log[i].instance], input.response, input.context,
                                      input.post_title)} :
                   log[i].value.feedback =
                       r.rel.feedback \o r.rea.feedback \o r.aut.feedback \o r.hel.feedback
                       \o r.com.feedback
            /\ InSourceOrder(log[i].value.feedback, 1)

\* a call whose feedback is not in alphabetical order: the three relevance
\* messages first ("Good ...", "Directly ...", "Attempts ..."), then readability,
\* authenticity and helpfulness, the three compliance messages last
C14_Witness ==
    /\ Len(log) = 1
    /\ Scored(1)
    /\ input.response.phrases = {P_thanks, P_steps}
    /\ LET feedback == log[1].value.feedback
       IN  /\ Len(feedback) = 18
           /\ SubSeq(feedback, 1, 4) =
                  << "Good keyword relevance to original post", "Directly addresses the poster",
                     "Attempts to answer the question", "Excellent readability level" >>
           /\ feedback[6] = "Uses appropriate Reddit tone"
           /\ feedback[9] = "Includes specific steps/instructions (2 instances)"
           /\ SubSeq(feedback, 16, 18) =
                  << "Positive indicator: respectful language", "Appropriate response length",
                     "Excellent compliance with Reddit guidelines" >>

\* ======================================================= improvement suggestions
\* the suggestions a breakdown and its flags call for, in the order of lines 602-657:
\* the catalogue of each dimension below its minimum, then the sentence of each flag
DueSuggestions(v) ==
    (IF v.breakdown.relevance < 70 * One THEN relevance_suggestions ELSE <<>>)
    \o (IF v.breakdown.readability < 65 * One THEN readability_suggestions ELSE <<>>)
    \o (IF v.breakdown.authenticity < 70 * One THEN authenticity_suggestions ELSE <<>>)
    \o (IF v.breakdown.helpfulness < 65 * One THEN helpfulness_suggestions ELSE <<>>)
    \o (IF v.breakdown.compliance < 80 * One THEN compliance_suggestions ELSE <<>>)
    \o SelectSeq(<< "Focus more directly on the original poster's specific question",
                    "Simplify language and sentence structure for better comprehension",
                    "Adopt a more natural, conversational Reddit tone",
                    "Review content for potential policy violations" >>,
                 LAMBDA sentence :
                    \/ /\ sentence = "Focus more directly on the original poster's specific question"
                       /\ Has(v.quality_flags, "LOW_RELEVANCE")
                    \/ /\ sentence = "Simplify language and sentence structure for better comprehension"
                       /\ Has(v.quality_flags, "POOR_READABILITY")
                    \/ /\ sentence = "Adopt a more natural, conversational Reddit tone"
                       /\ Has(v.quality_flags, "INAUTHENTIC_TONE")
                    \/ /\ sentence = "Review content for potential policy violations"
                       /\ Has(v.quality_flags, "COMPLIANCE_RISK"))

\* C15: improvement_suggestions never holds the same string twice, keeps the order in
\* which the suggestions were first produced (the catalogues of relevance, readability,
\* authenticity, helpfulness and compliance, then the sentences of the flags), and has
\* at most 8 entries.
C15_Suggestions ==
    \A i \in DOMAIN log :
        Scored(i) =>
            LET s == log[i].value.improvement_suggestions
                due == DueSuggestions(log[i].value)
            IN  /\ \A j, k \in DOMAIN s : s[j] = s[k] => j = k
                /\ Len(s) <= 8
                /\ Len(s) = Min(8, Len(due))
                /\ s = SubSeq(due, 1, Len(s))

\* relevance 60 and readability 60 with the other scores at 100: seven suggestions
\* of the two catalogues, then the sentence of LOW_RELEVANCE as the eighth and last;
\* the sentence of POOR_READABILITY is cut off
C15_Witness ==
    /\ Len(log) = 1
    /\ Scored(1)
    /\ log[1].value.breakdown =
           [relevance |-> 60 * One, readability |-> 60 * One, authenticity |-> 100 * One,
            helpfulness |-> 100 * One, compliance |-> 100 * One]
    /\ Len(log[1].value.improvement_suggestions) = 8
    /\ log[1].value.improvement_suggestions[1] = "Include more keywords from the original post title"
    /\ log[1].value.improvement_suggestions[4] =
           "Use shorter, simpler sentences (aim for 15-20 words per sentence)"
    /\ log[1].value.improvement_suggestions[8] =
           "Focus more directly on the original poster's specific question"

\* ======================================================= readability fallback
\* C16: when the readability computation raises, the exception does not leave the
\* readability scorer, the readability dimension gets its unmodified base score 50, and
\* the feedback holds the note that the computation was unavailable and the baseline is
\* used.
C16_Fallback ==
    \A i \in DOMAIN log :
        (log[i].invoked # <<>> /\ input.response.flesch.raises) =>
            /\ ~log[i].raised
            /\ log[i].value.breakdown.readability = 50 * One
            /\ Has(log[i].value.feedback, "computation unavailable, using baseline")

\* ======================================================= concurrent calls
\* the result of the call of thread c had it run alone on a new instance
Alone(c) ==
    score_response(__init__, input[c].response, input[c].context, input[c].post_title,
                   0, ties_up)

SameResponse ==
    /\ Len(log) = 2 /\ Scored(1) /\ Scored(2)
    /\ input.a.response = input.b.response

\* the four scores that do not depend on the title or the context are the same in
\* both calls
OnlyRelevanceMoves ==
    SameResponse =>
        \A d \in {"readability", "authenticity", "helpfulness", "compliance"} :
            log[1].value.breakdown[d] = log[2].value.breakdown[d]

\* some response and title get a different relevance result with a different context
ContextUsed ==
    \E t \in {x \in Texts : x.filler = "" /\ x.flesch = [raises |-> FALSE, value |-> 70]},
       title \in Titles, c1 \in Contexts, c2 \in Contexts :
        _score_relevance(__init__, t, title, c1) # _score_relevance(__init__, t, title, c2)

\* C18: the title and the context influence only the relevance dimension: for a fixed
\* response, changing the title or the context never changes the readability,
\* authenticity, helpfulness or compliance score; and the context is used by the
\* relevance scorer.
C18_OnlyRelevance ==
    /\ OnlyRelevanceMoves
    /\ ContextUsed


\* ======================================================= no title
\* the messages of the relevance scorer (lines 197-209)
RelevanceMessages ==
    { "Good keyword relevance to original post",
      "Low keyword relevance - consider addressing the main topic",
      "Directly addresses the poster", "Attempts to answer the question" }

\* C19: with an empty or absent title the relevance scorer returns exactly the base
\* score 50 and an empty feedback list, whatever the response and the context are, and
\* does not raise.
C19_NoTitle ==
    \A i \in DOMAIN log :
        (Scored(i) /\ input.post_title = "") =>
            /\ _score_relevance(scorers[log[i].instance], input.response, input.post_title,
                                input.context)
                 = [score |-> 50 * One, feedback |-> <<>>, raised |-> FALSE]
            /\ log[i].value.breakdown.relevance = 50 * One
            /\ \A k \in DOMAIN log[i].value.feedback :
                   log[i].value.feedback[k] \notin RelevanceMessages

\* a call without a title, with a context, for a response that addresses the poster
\* and would earn 10 points for it with any title
C19_Witness ==
    /\ Len(log) = 1
    /\ Scored(1)
    /\ input.post_title = ""
    /\ input.context = "prior research"
    /\ AnyIn(addressing_words, input.response)
    /\ log[1].value.breakdown.relevance = 50 * One

\* ======================================================= authenticity
\* 1 if the condition holds, 0 otherwise
Indicator(condition) ==
    IF condition THEN 1 ELSE 0

Arguments(i) ==
    IF i = 1 THEN input.a ELSE input.b

\* the points the unhelpful phrases of the text cost: per family, its penalty for each
\* of its phrases that occurs in the text
UnhelpfulDeduction(response) ==
    SumSet([k \in DOMAIN unhelpful_patterns |->
               (0 - unhelpful_patterns[k].penalty)
                   * Cardinality({j \in DOMAIN unhelpful_patterns[k].phrases :
                                     Search(unhelpful_patterns[k].phrases[j], response)})],
           DOMAIN unhelpful_patterns)

\* the points the helpful markers of the text earn: each high-value category its points
\* per occurrence and at most twice its points, each medium-value and structural
\* category its points once, 3 per action word and at most 15, 10 or 5 for the length
HelpfulBonus(response) ==
    SumSet([k \in DOMAIN high_value_elements |->
               Min(FindAll(high_value_elements[k].count, response) * high_value_elements[k].points,
                   2 * high_value_elements[k].points)],
           DOMAIN high_value_elements)
    + SumSet([k \in DOMAIN medium_value_elements |->
               IF Search(medium_value_elements[k].match, response)
               THEN medium_value_elements[k].points ELSE 0],
           DOMAIN medium_value_elements)
    + SumSet([k \in DOMAIN helpfulness_quality_patterns |->
               IF Search(helpfulness_quality_patterns[k].match, response)
               THEN helpfulness_quality_patterns[k].points ELSE 0],
           DOMAIN helpfulness_quality_patterns)
    + Min(3 * Cardinality({k \in DOMAIN action_words : Search(action_words[k], response)}), 15)
    + (IF 50 <= word_count(response) /\ word_count(response) <= 200 THEN 10
       ELSE IF 200 < word_count(response) /\ word_count(response) <= 300 THEN 5 ELSE 0)

\* the 10 points a text of fewer than 20 words loses
BriefDeduction(response) ==
    IF word_count(response) < 20 THEN 10 ELSE 0

\* C21: in the helpfulness scorer every unhelpful phrase that occurs costs its
\* family's penalty once; every penalty is strictly negative and the sum is not
\* capped, so a text with unhelpful phrases and no helpful marker scores below the
\* base 50, and 0 once the deductions reach 50; a high-value category never earns
\* more than twice its points.  The score is 50 plus the points of the helpful markers
\* minus these deductions (and 5 more for a comprehensive text of 80 or more), cut to
\* the range from 0 to 100.
C21_Unhelpful ==
    /\ \A k \in DOMAIN unhelpful_patterns : unhelpful_patterns[k].penalty < 0
    /\ \A i \in DOMAIN log :
        Scored(i) =>
            LET response == Arguments(i).response
                helpfulness == log[i].value.breakdown.helpfulness
                deduction == UnhelpfulDeduction(response)
                bonus == HelpfulBonus(response)
                raw == 50 + bonus - BriefDeduction(response) - deduction
                total == IF raw >= 80 /\ AnyIn(comprehensive_indicators, response)
                         THEN raw + 5 ELSE raw
            IN  /\ helpfulness = One * Min(100, Max(0, total))
                /\ (bonus = 0 /\ deduction > 0) =>
                       /\ helpfulness < 50 * One
                       /\ helpfulness = One * Max(0, 50 - BriefDeduction(response) - deduction)

\* "no idea, not sure, figure it out, it's obvious, everyone knows": five unhelpful
\* phrases of three families cost 8 + 45 + 12 = 65 points, no helpful marker, score 0
C21_Witness ==
    /\ Len(log) = 2
    /\ Scored(2)
    /\ input.b.response.phrases = {P_shrug}
    /\ input.b.response.filler = ""
    /\ UnhelpfulDeduction(input.b.response) = 65
    /\ HelpfulBonus(input.b.response) = 0
    /\ log[2].value.breakdown.helpfulness = 0
    /\ Has(log[2].value.feedback, "Contains dismissive language (3 instances)")

\* ======================================================= minor violations
\* what the loop over minor_violations (lines 438-443) takes off the score
MinorDeduction(response) ==
    0 - minor_loop(1, response, [score |-> 0, feedback |-> <<>>]).score

\* the number of major-violation categories the text matches
MajorCategories(response) ==
    Cardinality({k \in DOMAIN major_violations : Search(major_violations[k].match, response)})

\* the points the text earns in the compliance scorer: 3 per family of polite phrases,
\* 5 for a length of 20 to 300 words, 3 for at most two exclamation marks, 5 and 3 for
\* the edit and summary etiquette
ComplianceBonus(response) ==
    3 * Cardinality({k \in DOMAIN compliance_positive_indicators :
                        AnyIn(compliance_positive_indicators[k].phrases, response)})
    + (IF 20 <= word_count(response) /\ word_count(response) <= 300 THEN 5 ELSE 0)
    + (IF Total(exclamations, response) <= 2 THEN 3 ELSE 0)
    + (IF Search(edit_etiquette, response) THEN 5 ELSE 0)
    + (IF Search(summary_etiquette, response) THEN 3 ELSE 0)

\* the points the text loses apart from the major and the minor violations: 10 per
\* spam pattern, 5 for more than 500 words or 10 for fewer than 10, 5 for more than five
\* exclamation marks
ComplianceOtherDeduction(response) ==
    10 * Cardinality({k \in DOMAIN spam_patterns : Search(spam_patterns[k], response)})
    + (IF word_count(response) > 500 THEN 5 ELSE IF word_count(response) < 10 THEN 10 ELSE 0)
    + (IF Total(exclamations, response) > 5 THEN 5 ELSE 0)

\* C22 as stated: the deduction for minor violations is never more than 15 points in
\* total for one response.
C22_MinorTotal ==
    \A i \in DOMAIN log :
        Scored(i) => MinorDeduction(Arguments(i).response) <= 15

\* C22 amended: each of the four minor-violation categories costs 5 points per match
\* and never more than 15 points, so one response loses at most 60 points to them; the
\* compliance score is 85 minus 25 per major category minus this deduction minus the
\* other deductions plus the bonuses, cut to the range from 0 to 100.
C22_MinorPerCategory ==
    \A i \in DOMAIN log :
        Scored(i) =>
            LET response == Arguments(i).response
                cost == [k \in DOMAIN minor_violations |->
                            Min(5 * FindAll(minor_violations[k].count, response), 15)]
                minor == SumSet(cost, DOMAIN minor_violations)
            IN  /\ Len(minor_violations) = 4
                /\ MinorDeduction(response) = minor
                /\ minor <= 60
                /\ log[i].value.breakdown.compliance =
                       One * Min(100, Max(0, 85 - 25 * MajorCategories(response) - minor
                                             - ComplianceOtherDeduction(response)
                                             + ComplianceBonus(response)))

\* "BUY NOW BUY NOW BUY NOW guaranteed guaranteed guaranteed": six all-caps words cost
\* 15 points, not 30, and the repeated text 5 more, 20 points together
C22_Witness ==
    /\ Len(log) = 2
    /\ Scored(1)
    /\ input.a.response.phrases = {P_spam}
    /\ input.a.response.filler = ""
    /\ Has(log[1].value.feedback, "Minor violation: all caps words (6 instances)")
    /\ Has(log[1].value.feedback, "Minor violation: repetitive text (1 instances)")
    /\ MinorDeduction(input.a.response) = 20

\* ======================================================= release without review
\* C23: whenever score_response returns manual_review_required = false, the overall
\* score it returns is at least 85 (AUTO_APPROVE): no response with an overall score
\* below 85 is released without manual review.
C23_Released ==
    \A i \in DOMAIN log :
        (~log[i].raised /\ log[i].value.manual_review_required = FALSE) =>
            log[i].value.overall_score >= 10 * QualityThresholds.AUTO_APPROVE

\* ======================================================= one major violation
\* C24: every response that matches at least one major-violation category gets a
\* compliance score below 80, hence the flag COMPLIANCE_RISK and
\* manual_review_required = true, whatever compliance bonuses the rest of the text
\* earns.
C24_AnyMajor ==
    \A i \in DOMAIN log :
        (Scored(i) /\ MajorCategories(Arguments(i).response) >= 1) =>
            /\ log[i].value.breakdown.compliance < 80 * One
            /\ Has(log[i].value.quality_flags, "COMPLIANCE_RISK")
            /\ log[i].value.manual_review_required = TRUE

\* ======================================================= a suggestion per low dimension
\* the minimum of a dimension and its catalogue of suggestions
Minimum(d) ==
    CASE d = "relevance" -> 70 [] d = "readability" -> 65 [] d = "authenticity" -> 70
      [] d = "helpfulness" -> 65 [] d = "compliance" -> 80

Catalogue(d) ==
    CASE d = "relevance" -> relevance_suggestions
      [] d = "readability" -> readability_suggestions
      [] d = "authenticity" -> authenticity_suggestions
      [] d = "helpfulness" -> helpfulness_suggestions
      [] d = "compliance" -> compliance_suggestions

\* the result holds a suggestion of the catalogue of dimension d
Represented(v, d) ==
    \E j \in DOMAIN v.improvement_suggestions :
        Has(Catalogue(d), v.improvement_suggestions[j])

\* how many suggestions the catalogues of the low dimensions before the k-th hold
Ahead(v, k) ==
    SumSet([j \in 1..5 |->
               IF j < k /\ v.breakdown[Dimensions[j]] < Minimum(Dimensions[j]) * One
               THEN Len(Catalogue(Dimensions[j])) ELSE 0],
           1..5)

\* C25 as stated: for every dimension whose score is below its minimum the returned
\* improvement_suggestions holds at least one suggestion of that dimension's
\* catalogue, also when several dimensions are below their minimum at once.
C25_EveryLow ==
    \A i \in DOMAIN log :
        Scored(i) =>
            \A k \in 1..5 :
                log[i].value.breakdown[Dimensions[k]] < Minimum(Dimensions[k]) * One
                    => Represented(log[i].value, Dimensions[k])

\* C25 amended: for a scored response the returned improvement_suggestions holds a
\* suggestion of the catalogue of a dimension exactly when that dimension is below its
\* minimum and the catalogues of the low dimensions before it (in the order relevance,
\* readability, authenticity, helpfulness, compliance) hold fewer than 8 suggestions
\* together; relevance and readability, when low, always have one.
C25_FirstEight ==
    \A i \in DOMAIN log :
        Scored(i) =>
            \A k \in 1..5 :
                LET v == log[i].value
                    low == v.breakdown[Dimensions[k]] < Minimum(Dimensions[k]) * One
                IN  /\ Represented(v, Dimensions[k]) <=> (low /\ Ahead(v, k) < 8)
                    /\ (low /\ k <= 2) => Represented(v, Dimensions[k])

\* all five dimensions below their minimum: the three suggestions for relevance, the
\* four for readability and the first for authenticity; none for helpfulness and none
\* for compliance
C25_Witness ==
    /\ Len(log) = 1
    /\ Scored(1)
    /\ \A k \in 1..5 :
           log[1].value.breakdown[Dimensions[k]] < Minimum(Dimensions[k]) * One
    /\ Len(log[1].value.improvement_suggestions) = 8
    /\ log[1].value.improvement_suggestions[8] = "Add personal experience or anecdotes"
    /\ ~Represented(log[1].value, "helpfulness")
    /\ ~Represented(log[1].value, "compliance")

\* ======================================================= a call without a title
\* C26: when score_response is called without a title on text that passes the length
\* check, relevance is 50, LOW_RELEVANCE is among the flags, the overall score is at
\* most 87.5 (before and after rounding), and neither EXCELLENT_QUALITY nor
\* ALL_DIMENSIONS_EXCELLENT is among the flags.
C26_NoTitle ==
    \A i \in DOMAIN log :
        (Scored(i) /\ Arguments(i).post_title = "") =>
            /\ log[i].value.breakdown.relevance = 50 * One
            /\ Has(log[i].value.quality_flags, "LOW_RELEVANCE")
            /\ 10 * log[i].locals.overall_score <= 875 * OverallUnit
            /\ log[i].value.overall_score <= 875
            /\ ~Has(log[i].value.quality_flags, "EXCELLENT_QUALITY")
            /\ ~Has(log[i].value.quality_flags, "ALL_DIMENSIONS_EXCELLENT")

\* the same response scored with a title and without: with the title it is relevant,
\* without it relevance is 50 and the result carries LOW_RELEVANCE
C26_Witness ==
    /\ Len(log) = 2
    /\ Scored(1) /\ Scored(2)
    /\ input.a.post_title # "" /\ input.b.post_title = ""
    /\ input.a.response = input.b.response
    /\ log[1].value.breakdown.relevance >= 70 * One
    /\ log[2].value.breakdown.relevance = 50 * One
    /\ ~Has(log[1].value.quality_flags, "LOW_RELEVANCE")
    /\ Has(log[2].value.quality_flags, "LOW_RELEVANCE")
    /\ log[2].value.overall_score < log[1].value.overall_score

\* ======================================================= the legacy suggestions
\* C27 as stated: for every breakdown of five dimension scores,
\* get_improvement_suggestions(scores), which derives the flags from the unweighted
\* mean, returns exactly the improvement_suggestions score_response produces for a
\* result with that breakdown.
C27_EveryBreakdown ==
    Len(log) = 2 => log[2].value = log[1].value.improvement_suggestions

\* C27 amended: for every result of score_response on a response that passes the
\* length check, get_improvement_suggestions(result['breakdown']) returns exactly
\* result['improvement_suggestions'], although the flags it derives from the
\* unweighted mean can differ from the result's; these differ only in the flags of
\* the overall score, and no suggestion depends on those.
C27_ScoredBreakdown ==
    (Len(log) = 2 /\ Scored(1)) =>
        /\ log[2].value = log[1].value.improvement_suggestions
        /\ \A f \in {"LOW_RELEVANCE", "POOR_READABILITY", "INAUTHENTIC_TONE", "LOW_HELPFULNESS",
                     "COMPLIANCE_RISK", "ALL_DIMENSIONS_EXCELLENT", "CRITICAL_DIMENSION_FAILURE"} :
               Has(log[2].locals.quality_flags, f) <=> Has(log[1].value.quality_flags, f)

\* a breakdown whose weighted score is below 80 and whose mean is at least 80: the
\* legacy call derives AUTO_APPROVE_CANDIDATE, score_response did not, and the lists
\* are the same four suggestions
C27_Witness ==
    /\ Len(log) = 2
    /\ Scored(1)
    /\ Has(log[2].locals.quality_flags, "AUTO_APPROVE_CANDIDATE")
    /\ ~Has(log[1].value.quality_flags, "AUTO_APPROVE_CANDIDATE")
    /\ log[1].locals.overall_score < log[2].locals.overall_score
    /\ log[2].value = log[1].value.improvement_suggestions
    /\ Len(log[2].value) = 4
    /\ log[2].value[4] = "Focus more directly on the original poster's specific question"

\* ======================================================= generate_reddit_replies
\* the generator is configured and its call did not raise
Generated ==
    input.client /\ ~input.completion.raises

\* the entries appended by lines 233-243
IsFallback(entry) ==
    entry.feedback = <<"Fallback response">>

\* C28: when the text generator is configured and its call succeeds,
\* generate_reddit_replies returns exactly num entries ordered by non-increasing
\* score, also when fewer than num suggestions were scored and fallback entries with
\* score 50 are appended.
C28_Ordered ==
    (Len(log) = 1 /\ Generated) =>
        /\ Len(log[1]) = input.num
        /\ \A k \in 1..(Len(log[1]) - 1) : log[1][k].score >= log[1][k + 1].score

\* ======================================================= the connection manager
\* C29: after any interleaving of connect, disconnect, failed personal sends and
\* client broadcasts, connection_stats['current_connections'] equals the number of
\* entries of connection_info and the number of websockets held in
\* active_connections, every websocket is held in the set of its client and nowhere
\* else, no client id maps to an empty set, and disconnecting a websocket that is
\* unknown or already removed changes nothing.
C29_Consistent ==
    /\ manager.connection_stats.current_connections = Cardinality(DOMAIN manager.connection_info)
    /\ manager.connection_stats.current_connections
           = SumSet([c \in DOMAIN manager.active_connections |->
                        Cardinality(manager.active_connections[c])],
                    DOMAIN manager.active_connections)
    /\ \A c \in DOMAIN manager.active_connections :
           /\ manager.active_connections[c] # {}
           /\ manager.active_connections[c]
                  = {w \in DOMAIN manager.connection_info : manager.connection_info[w].client_id = c}
    /\ \A w \in Sockets \ DOMAIN manager.connection_info : disconnect(manager, w) = manager
    /\ manager.connection_stats.current_connections
           = manager.connection_stats.total_connections_ever - manager.connection_stats.disconnections

\* one websocket is still connected, the other one was removed by the clean-up of a
\* broadcast, and its endpoint has since called manager.disconnect, which found it
\* gone and changed nothing
C29_Witness ==
    /\ DOMAIN log = 1..Broadcaster
    /\ manager.connection_stats.total_connections_ever = 2
    /\ manager.connection_stats.current_connections = 1
    /\ manager.connection_stats.disconnections = 1
    /\ \E w \in Sockets : log[w].at = "done" /\ log[w].unknown
    /\ ~log[Broadcaster].unknown

\* ======================================================= with_reddit_error_handling
\* C30: for every sequence of Reddit API failures the wrapped function is invoked at
\* most 3 times per call, the wrapper ends after at most 3 invocations, either
\* returning the function's value or raising RedditAPIError, and an unexpected
\* exception type is turned into RedditAPIError after the first invocation without
\* a retry.
C30_Wrapper ==
    /\ log[1].invocations <= max_retries
    /\ log[1].at = "loop" => log[1].invocations < max_retries
    /\ log[1].at = "returned" => input.outcomes[log[1].invocations].kind = "returns"
    /\ log[1].at = "raised" => log[1].exception = "RedditAPIError"
    /\ (log[1].invocations >= 1 /\ input.outcomes[1].kind = "Exception") =>
           /\ log[1].at = "raised"
           /\ log[1].invocations = 1
           /\ log[1].exception = "RedditAPIError"

====
